---- MODULE Spec2Model ----
(***************************************************************************)
(* A model of src/papers_please.py: the Inspector, its four rules, the     *)
(* bulletin directives that update them and the inspection of an entrant.  *)
(*                                                                         *)
(* Text is modelled as follows.  A bulletin is a sequence of lines; a line *)
(* is the sequence of its whitespace-separated words, with the list        *)
(* separator ", " and the colon ":" as tokens of their own.  A document of *)
(* an entrant is a sequence of lines, each line being the list of parts    *)
(* that line.split(': ') returns.  Strings are TLA+ strings, joined with   *)
(* \o where the code formats them.                                         *)
(***************************************************************************)
EXTENDS Integers, Sequences, FiniteSets, TLC

VARIABLES
    rules,      \* Inspector.rules: the state of the stateful rules
    hashorder,  \* the iteration order of this process's sets of strings, << >> until it shows
    last,       \* history: the last call (operation, argument, rules before it, outcome)
    calls       \* history: number of calls made of receive_bulletin and of inspect

vars == <<rules, hashorder, last, calls>>

-----------------------------------------------------------------------------
(* Bounds of the model *)

\* receive_bulletin calls per behaviour
MaxBulletins == 3

\* inspect calls per behaviour
MaxInspections == 2

-----------------------------------------------------------------------------
(* Module constants *)

\* Python's None; no bulletin line of the model holds this word
None == "None"

COUNTRIES ==
    << "Arstotzka", "Antegria", "Impor", "Kolechia", "Obristan", "Republia",
       "United Federation", None >>

ARSTOTZKA == COUNTRIES[1]

PASSPORT == "passport"
ACCESS_PERMIT == "access_permit"
IDCARD == "ID_card"
VACCINATION == "vaccination"
VACCINATION_CERT == "certificate_of_vaccination"
VACCINES == "VACCINES"
DIPLOMAT == "diplomatic_authorization"
ASYLUM == "grant_of_asylum"
ACCESS == "ACCESS"
NAME == "NAME"
BIRTHDAY == "DOB"
ID == "ID#"
EXPIRATION == "EXP"
NATION == "NATION"
PURPOSE == "PURPOSE"
WORK == "WORK"

ENTRANTS == "Entrants"
FOREIGNERS == "Foreigners"
WORKERS == "Workers"

\* The outcome of a call that raised
ValueError == "ValueError"
KeyError == "KeyError"

-----------------------------------------------------------------------------
(* Text helpers: str.join, str.split(', ') and the regular expressions,    *)
(* on lines given as token sequences                                       *)

COMMA == ","
COLON == ":"

\* \w+ : a token that is a word, not a separator
IsWord(t) == t \notin {COMMA, COLON}

Range(s) == {s[i] : i \in DOMAIN s}

\* the elements of s from index a to the end
From(s, a) == IF a > Len(s) THEN << >> ELSE SubSeq(s, a, Len(s))

\* sep.join(words)
RECURSIVE Join(_, _)
Join(words, sep) ==
    IF words = << >> THEN ""
    ELSE IF Len(words) = 1 THEN words[1]
    ELSE words[1] \o sep \o Join(Tail(words), sep)

\* text.split(', ') on a token sequence: the groups of words between commas
RECURSIVE SplitComma(_)
SplitComma(tokens) ==
    IF \A i \in DOMAIN tokens : tokens[i] # COMMA THEN << tokens >>
    ELSE LET i == CHOOSE k \in DOMAIN tokens :
                      /\ tokens[k] = COMMA
                      /\ \A j \in 1..(k - 1) : tokens[j] # COMMA
         IN  << SubSeq(tokens, 1, i - 1) >> \o SplitComma(From(tokens, i + 1))

\* the text of a token sequence: words separated by one space, commas attached
RECURSIVE Text(_)
Text(tokens) ==
    IF tokens = << >> THEN ""
    ELSE IF Len(tokens) = 1 THEN tokens[1]
    ELSE IF tokens[2] = COMMA THEN tokens[1] \o Text(Tail(tokens))
    ELSE tokens[1] \o " " \o Text(Tail(tokens))

\* the least index satisfying P, 0 when there is none
Least(S) == IF S = {} THEN 0 ELSE CHOOSE i \in S : \A j \in S : i <= j

-----------------------------------------------------------------------------
(* defaultdict(set) *)

EmptyDict == [k \in {} |-> {}]

\* the value d[k] evaluates to
Lookup(d, k) == IF k \in DOMAIN d THEN d[k] ELSE {}

\* a lookup that grows the set it finds
Touch_adding(d, k) ==
    IF k \in DOMAIN d THEN [d EXCEPT ![k] = @ \cup {PASSPORT}] ELSE d @@ (k :> {})

\* the dictionary after d[k] was evaluated: a missing key is stored
Touch(d, k) == IF k \in DOMAIN d THEN d ELSE d @@ (k :> {})

\* d.pop(k)
Pop(d, k) == [c \in DOMAIN d \ {k} |-> d[c]]

\* for c in cs: setmerge(d[c], s)
MergeInto(d, cs, s) ==
    [c \in DOMAIN d \cup cs |-> IF c \in cs THEN Lookup(d, c) \cup s ELSE d[c]]

\* the outcome of Rule.parse_error
ParseError == [raised |-> TRUE]

-----------------------------------------------------------------------------
(* class WantedCriminals *)

WantedCriminals_init == [name |-> ""]

WantedCriminals_matches(rule) == Len(rule) >= 1 /\ rule[1] = "Wanted"

\* a parse that takes the two words the other way round
WantedCriminals_parse_swapped(rule) ==
    LET i == Least({k \in 1..(Len(rule) - 2) :
                      /\ rule[k] = COLON
                      /\ IsWord(rule[k + 1])
                      /\ IsWord(rule[k + 2])})
    IN  IF i = 0 THEN ParseError
        ELSE [raised |-> FALSE, name |-> rule[i + 1] \o ", " \o rule[i + 2]]

\* re.search(r':\s+(\w+)\s+(\w+)', rule)
WantedCriminals_parse(rule) ==
    LET i == Least({k \in 1..(Len(rule) - 2) :
                      /\ rule[k] = COLON
                      /\ IsWord(rule[k + 1])
                      /\ IsWord(rule[k + 2])})
    IN  IF i = 0 THEN ParseError
        ELSE LET first_name == rule[i + 1]
                 last_name == rule[i + 2]
             IN  [raised |-> FALSE, name |-> last_name \o ", " \o first_name]

\* an update that keeps a name already held
WantedCriminals_update_keeping(self, other) ==
    IF self.name = "" THEN [self EXCEPT !.name = other.name] ELSE self

WantedCriminals_update(self, other) == [self EXCEPT !.name = other.name]

-----------------------------------------------------------------------------
(* class RequiredDocuments *)

RequiredDocuments_init == [categories |-> EmptyDict, nolonger |-> FALSE]

\* 'require' in rule
RequiredDocuments_matches(rule) == \E k \in DOMAIN rule : rule[k] = "require"

\* an expansion that takes the home nation for a foreign one
RequiredDocuments_merge_categories_all(categories) ==
    LET c1 == IF ENTRANTS \in DOMAIN categories
              THEN MergeInto(Pop(categories, ENTRANTS), Range(COUNTRIES),
                             categories[ENTRANTS])
              ELSE categories
    IN  IF FOREIGNERS \in DOMAIN c1
        THEN MergeInto(Pop(c1, FOREIGNERS), Range(COUNTRIES), c1[FOREIGNERS])
        ELSE c1

\* Handle special categories `Entrants` and `Foreigners`
RequiredDocuments_merge_categories(categories) ==
    LET c1 == IF ENTRANTS \in DOMAIN categories
              THEN MergeInto(Pop(categories, ENTRANTS), Range(COUNTRIES),
                             categories[ENTRANTS])
              ELSE categories
    IN  IF FOREIGNERS \in DOMAIN c1
        THEN MergeInto(Pop(c1, FOREIGNERS), Range(Tail(COUNTRIES)), c1[FOREIGNERS])
        ELSE c1

\* re.search(r'(.+?)\s+(no\s+longer)?\s*require\s+(.+)', rule): the first
\* "require" with text before and after it, then 'Citizens of (.+)' in the
\* category phrase
RequiredDocuments_parse(rule) ==
    LET i == Least({k \in 2..(Len(rule) - 1) : rule[k] = "require"})
    IN  IF i = 0 THEN ParseError
        ELSE LET nolonger == i >= 4 /\ rule[i - 2] = "no" /\ rule[i - 1] = "longer"
                 phrase == SubSeq(rule, 1, IF nolonger THEN i - 3 ELSE i - 1)
                 documents ==
                     {Join(g, "_") : g \in Range(SplitComma(From(rule, i + 1)))}
                 c == Least({k \in 1..(Len(phrase) - 2) :
                               phrase[k] = "Citizens" /\ phrase[k + 1] = "of"})
                 categories ==
                     IF c # 0
                     THEN {Join(g, " ") : g \in Range(SplitComma(From(phrase, c + 2)))}
                     ELSE {Text(phrase)}
             IN  [raised |-> FALSE,
                  nolonger |-> nolonger,
                  categories |->
                      RequiredDocuments_merge_categories(
                          [category \in categories |-> documents])]

\* an update that applies the directive to every category held
RequiredDocuments_update_spreading(self, other) ==
    [self EXCEPT !.categories =
        [category \in DOMAIN self.categories \cup DOMAIN other.categories |->
            IF other.nolonger
            THEN Lookup(self.categories, category)
                     \ UNION {other.categories[c] : c \in DOMAIN other.categories}
            ELSE Lookup(self.categories, category)
                     \cup UNION {other.categories[c] : c \in DOMAIN other.categories}]]

\* an update that toggles the documents: symmetric difference for union
RequiredDocuments_update_toggling(self, other) ==
    [self EXCEPT !.categories =
        [category \in DOMAIN self.categories \cup DOMAIN other.categories |->
            IF category \in DOMAIN other.categories
            THEN IF other.nolonger
                 THEN Lookup(self.categories, category) \ other.categories[category]
                 ELSE (Lookup(self.categories, category) \ other.categories[category])
                          \cup (other.categories[category]
                                    \ Lookup(self.categories, category))
            ELSE self.categories[category]]]

\* an update that ignores nolonger: always setmerge
RequiredDocuments_update_merging(self, other) ==
    [self EXCEPT !.categories =
        [category \in DOMAIN self.categories \cup DOMAIN other.categories |->
            IF category \in DOMAIN other.categories
            THEN Lookup(self.categories, category) \cup other.categories[category]
            ELSE self.categories[category]]]

\* an update whose nolonger empties the category
RequiredDocuments_update_clearing(self, other) ==
    [self EXCEPT !.categories =
        [category \in DOMAIN self.categories \cup DOMAIN other.categories |->
            IF category \in DOMAIN other.categories
            THEN IF other.nolonger
                 THEN {}
                 ELSE Lookup(self.categories, category) \cup other.categories[category]
            ELSE self.categories[category]]]

\* operation = setsubtract if other.nolonger else setmerge
RequiredDocuments_update(self, other) ==
    [self EXCEPT !.categories =
        [category \in DOMAIN self.categories \cup DOMAIN other.categories |->
            IF category \in DOMAIN other.categories
            THEN IF other.nolonger
                 THEN Lookup(self.categories, category) \ other.categories[category]
                 ELSE Lookup(self.categories, category) \cup other.categories[category]
            ELSE self.categories[category]]]

-----------------------------------------------------------------------------
(* class AllowedNations *)

AllowedNations_init == [whitelist |-> {}, deny |-> FALSE]

\* 'citizens of' in rule
AllowedNations_matches(rule) ==
    \E k \in 1..(Len(rule) - 1) : rule[k] = "citizens" /\ rule[k + 1] = "of"

\* re.search(r'(Allow|Deny)\s+citizens\s+of\s+(.+)', rule)
AllowedNations_parse(rule) ==
    LET i == Least({k \in 1..(Len(rule) - 3) :
                      /\ rule[k] \in {"Allow", "Deny"}
                      /\ rule[k + 1] = "citizens"
                      /\ rule[k + 2] = "of"})
    IN  IF i = 0 THEN ParseError
        ELSE LET deny == rule[i] = "Deny"
                 countrys == SplitComma(From(rule, i + 3))
             IN  [raised |-> FALSE,
                  whitelist |-> {Join(g, " ") : g \in Range(countrys)},
                  deny |-> deny]

\* an update that merges whatever the directive says
AllowedNations_update_merging(self, other) ==
    [self EXCEPT !.whitelist = self.whitelist \cup other.whitelist]

\* an update whose deny empties the whitelist
AllowedNations_update_clearing(self, other) ==
    [self EXCEPT !.whitelist =
        IF other.deny THEN {} ELSE self.whitelist \cup other.whitelist]

\* operation = setsubtract if other.deny else setmerge
AllowedNations_update(self, other) ==
    [self EXCEPT !.whitelist =
        IF other.deny THEN self.whitelist \ other.whitelist
        ELSE self.whitelist \cup other.whitelist]

-----------------------------------------------------------------------------
(* class ValidDocuments: no state, matches no bulletin line *)

ValidDocuments_init == << >>

ValidDocuments_matches(rule) == FALSE

ValidDocuments_parse(rule) == ParseError

ValidDocuments_update(self, other) == self

-----------------------------------------------------------------------------
(* RuleMeta.rules(): the rule classes in the order of their definition *)

Rules == << "WantedCriminals", "ValidDocuments", "RequiredDocuments", "AllowedNations" >>

Rule_matches(Rule, rule) ==
    CASE Rule = "WantedCriminals" -> WantedCriminals_matches(rule)
      [] Rule = "ValidDocuments" -> ValidDocuments_matches(rule)
      [] Rule = "RequiredDocuments" -> RequiredDocuments_matches(rule)
      [] Rule = "AllowedNations" -> AllowedNations_matches(rule)

Rule_parse(Rule, rule) ==
    CASE Rule = "WantedCriminals" -> WantedCriminals_parse(rule)
      [] Rule = "ValidDocuments" -> ValidDocuments_parse(rule)
      [] Rule = "RequiredDocuments" -> RequiredDocuments_parse(rule)
      [] Rule = "AllowedNations" -> AllowedNations_parse(rule)

Rule_update(Rule, self, other) ==
    CASE Rule = "WantedCriminals" -> WantedCriminals_update(self, other)
      [] Rule = "ValidDocuments" -> ValidDocuments_update(self, other)
      [] Rule = "RequiredDocuments" -> RequiredDocuments_update(self, other)
      [] Rule = "AllowedNations" -> AllowedNations_update(self, other)

-----------------------------------------------------------------------------
(* class Inspector: the bulletin *)

\* rules are ordered by priority
Inspector_init ==
    [WantedCriminals |-> WantedCriminals_init,
     ValidDocuments |-> ValidDocuments_init,
     RequiredDocuments |-> RequiredDocuments_init,
     AllowedNations |-> AllowedNations_init]

\* a line whose update replaces the rules by fresh ones but for its own
ReceiveLine_replacing(self, rulestr) ==
    LET k == Least({n \in DOMAIN Rules : Rule_matches(Rules[n], rulestr)})
    IN  IF k = 0 THEN [rules |-> self, raised |-> FALSE]
        ELSE LET rule == Rule_parse(Rules[k], rulestr)
             IN  IF rule.raised THEN [rules |-> self, raised |-> TRUE]
                 ELSE [rules |-> [Inspector_init EXCEPT
                                    ![Rules[k]] =
                                        Rule_update(Rules[k], self[Rules[k]], rule)],
                       raised |-> FALSE]

\* a line that cannot be parsed is passed over
ReceiveLine_skipping(self, rulestr) ==
    LET k == Least({n \in DOMAIN Rules : Rule_matches(Rules[n], rulestr)})
    IN  IF k = 0 THEN [rules |-> self, raised |-> FALSE]
        ELSE LET rule == Rule_parse(Rules[k], rulestr)
             IN  IF rule.raised THEN [rules |-> self, raised |-> FALSE]
                 ELSE [rules |-> [self EXCEPT
                                    ![Rules[k]] = Rule_update(Rules[k], @, rule)],
                       raised |-> FALSE]

\* a line no rule class matches is an error
ReceiveLine_strict(self, rulestr) ==
    LET k == Least({n \in DOMAIN Rules : Rule_matches(Rules[n], rulestr)})
    IN  IF k = 0 THEN [rules |-> self, raised |-> TRUE]
        ELSE LET rule == Rule_parse(Rules[k], rulestr)
             IN  IF rule.raised THEN [rules |-> self, raised |-> TRUE]
                 ELSE [rules |-> [self EXCEPT
                                    ![Rules[k]] = Rule_update(Rules[k], @, rule)],
                       raised |-> FALSE]

\* One line of the bulletin: the first rule class that matches parses it and
\* the rule held under its name absorbs the update
ReceiveLine(self, rulestr) ==
    LET k == Least({n \in DOMAIN Rules : Rule_matches(Rules[n], rulestr)})
    IN  IF k = 0 THEN [rules |-> self, raised |-> FALSE]
        ELSE LET rule == Rule_parse(Rules[k], rulestr)
             IN  IF rule.raised THEN [rules |-> self, raised |-> TRUE]
                 ELSE [rules |-> [self EXCEPT
                                    ![Rules[k]] = Rule_update(Rules[k], @, rule)],
                       raised |-> FALSE]

\* Inspector.receive_bulletin: the rules after the call and whether it raised
RECURSIVE receive_bulletin(_, _)
receive_bulletin(self, bulletinstr) ==
    IF bulletinstr = << >> THEN [rules |-> self, raised |-> FALSE]
    ELSE LET r == ReceiveLine(self, Head(bulletinstr))
         IN  IF r.raised THEN r
             ELSE receive_bulletin(r.rules, Tail(bulletinstr))

-----------------------------------------------------------------------------
(* The characters of the strings the model uses.  TLA+ strings are opaque,  *)
(* so what the code reads inside a string (a suffix, an underscore, a       *)
(* character to compare) is looked up in these tables of the vocabulary.    *)

\* document identifiers, as the words that '_' separates
DocumentWords ==
    { << "passport" >>, << "ID", "card" >>, << "access", "permit" >>,
      << "measles", "vaccination" >>, << "certificate", "of", "vaccination" >>,
      << "diplomatic", "authorization" >>, << "grant", "of", "asylum" >> }

WordsOf == [name \in {Join(w, "_") : w \in DocumentWords} |->
               CHOOSE w \in DocumentWords : Join(w, "_") = name]

\* name.split('_')
Words(name) == WordsOf[name]

\* values of the list-valued fields VACCINES and ACCESS, as tokens
ListTokens ==
    { << "measles" >>, << "polio" >>, << "polio", COMMA, "measles" >>,
      << "Arstotzka" >>, << "Antegria" >>, << "Antegria", COMMA, "Arstotzka" >> }

TokensOf == [value \in {Text(t) : t \in ListTokens} |->
                CHOOSE t \in ListTokens : Text(t) = value]

\* set(value.split(', '))
SplitValue(value) == {Join(g, " ") : g \in Range(SplitComma(TokensOf[value]))}

\* dates, as their characters
DateChars ==
    { << "1", "9", "8", "2", ".", "1", "1", ".", "2", "0" >>,
      << "1", "9", "8", "2", ".", "1", "1", ".", "2", "2" >>,
      << "1", "9", "8", "3", ".", "0", "1", ".", "0", "1" >>,
      << "1", "9", "8", "2", ".", "1", "1", ".", "2", "1" >>,
      << "1", "9", "8", "2", ".", "1", "1", ".", "2", "3" >>,
      << "1", "9", "8", "2", ".", "1", "2", ".", "0", "1" >>,
      << "1", "9", "8", "2", ".", "0", "9", ".", "3", "0" >>,
      << "1", "9", "8", "2", ".", "1", "0", ".", "3", "1" >>,
      << "1", "9", "8", "1", ".", "1", "2", ".", "3", "1" >>,
      << "1", "9", "8", "2", ".", "9", ".", "3", "0" >> }

CharsOf == [date \in {Join(c, "") : c \in DateChars} |->
               CHOOSE c \in DateChars : Join(c, "") = date]

Chars(date) == CharsOf[date]

\* ord(ch) for the characters of a date
Ord(ch) ==
    CASE ch = "." -> 46 [] ch = "0" -> 48 [] ch = "1" -> 49 [] ch = "2" -> 50
      [] ch = "3" -> 51 [] ch = "4" -> 52 [] ch = "5" -> 53 [] ch = "6" -> 54
      [] ch = "7" -> 55 [] ch = "8" -> 56 [] ch = "9" -> 57

\* a <= b for Python strings, on their characters
RECURSIVE StrLeq(_, _)
StrLeq(a, b) ==
    IF a = << >> THEN TRUE
    ELSE IF b = << >> THEN FALSE
    ELSE IF Ord(a[1]) # Ord(b[1]) THEN Ord(a[1]) < Ord(b[1])
    ELSE StrLeq(Tail(a), Tail(b))

\* name.endswith(Papers.VACCINATION)
EndsWithVaccination(name) == Words(name)[Len(Words(name))] = VACCINATION

-----------------------------------------------------------------------------
(* class Papers.  An entrant is a sequence of [document, infostr] in the    *)
(* order of the dict given to inspect; infostr is a sequence of lines, each *)
(* the list line.split(': ') returns.                                       *)

\* parse_info raises: some line does not split into a key and a value
Papers_raises(entrant) ==
    \E n \in DOMAIN entrant :
        \E l \in DOMAIN entrant[n].infostr : Len(entrant[n].infostr[l]) # 2

\* Papers.parse_info: a later line with the same key overrides an earlier one
parse_info(infostr) ==
    [key \in {infostr[l][1] : l \in DOMAIN infostr} |->
        LET l == CHOOSE k \in DOMAIN infostr :
                     /\ infostr[k][1] = key
                     /\ \A j \in DOMAIN infostr : infostr[j][1] = key => j <= k
        IN  infostr[l][2]]

\* Papers.__init__
Papers(entrant) ==
    [n \in DOMAIN entrant |->
        [document |-> entrant[n].document, info |-> parse_info(entrant[n].infostr)]]

\* document in papers
Has(papers, document) == \E n \in DOMAIN papers : papers[n].document = document

\* papers[document]
Paper(papers, document) ==
    papers[CHOOSE n \in DOMAIN papers : papers[n].document = document].info

\* a lookup that takes the last paper with the attribute
Papers_lookup_attr_last(papers, attr) ==
    IF \A k \in DOMAIN papers : attr \notin DOMAIN papers[k].info THEN None
    ELSE papers[CHOOSE k \in DOMAIN papers :
                    /\ attr \in DOMAIN papers[k].info
                    /\ \A j \in DOMAIN papers :
                           attr \in DOMAIN papers[j].info => j <= k].info[attr]

Papers_lookup_attr(papers, attr) ==
    LET n == Least({k \in DOMAIN papers : attr \in DOMAIN papers[k].info})
    IN  IF n = 0 THEN None ELSE papers[n].info[attr]

Papers_name(papers) == Papers_lookup_attr(papers, NAME)

\* a nation that an ID card does not default
Papers_nation_unresolved(papers) == Papers_lookup_attr(papers, NATION)

Papers_nation(papers) ==
    LET nation == Papers_lookup_attr(papers, NATION)
    IN  IF nation = None /\ Has(papers, IDCARD) THEN ARSTOTZKA ELSE nation

\* papers.worker raises KeyError: an access permit without PURPOSE
Papers_worker_raises(papers) ==
    Has(papers, ACCESS_PERMIT) /\ PURPOSE \notin DOMAIN Paper(papers, ACCESS_PERMIT)

Papers_worker(papers) ==
    IF Has(papers, ACCESS_PERMIT)
    THEN Paper(papers, ACCESS_PERMIT)[PURPOSE] = WORK
    ELSE FALSE

\* papers.certificate_of_vaccination raises KeyError: a certificate without VACCINES
Papers_certificate_raises(papers) ==
    Has(papers, VACCINATION_CERT)
        /\ VACCINES \notin DOMAIN Paper(papers, VACCINATION_CERT)

\* papers.certificate_of_vaccination is None
Papers_certificate_is_None(papers) == ~Has(papers, VACCINATION_CERT)

\* papers.certificate_of_vaccination, when it is not None
Papers_certificate_of_vaccination(papers) ==
    SplitValue(Paper(papers, VACCINATION_CERT)[VACCINES])

Papers_diplomatic_countries(papers) ==
    IF Has(papers, DIPLOMAT) /\ ACCESS \in DOMAIN Paper(papers, DIPLOMAT)
    THEN SplitValue(Paper(papers, DIPLOMAT)[ACCESS])
    ELSE {}

\* document is a per-disease vaccination requirement
IsVaccination(document) ==
    document # VACCINATION_CERT /\ EndsWithVaccination(document)

\* re.search(r'(\w+)_vaccination', document), then match[1].replace('_', ' ')
Disease(document) == Join(SubSeq(Words(document), 1, Len(Words(document)) - 1), " ")

\* Papers.document_present raises
Papers_document_present_raises(papers, document) ==
    IsVaccination(document) /\ Papers_certificate_raises(papers)

\* presence that never consults the certificate
Papers_document_present_plain(papers, document) == Has(papers, document)

Papers_document_present(papers, document) ==
    IF /\ IsVaccination(document)
       /\ ~Papers_certificate_is_None(papers)
       /\ Len(Words(document)) >= 2
    THEN Disease(document) \in Papers_certificate_of_vaccination(papers)
    ELSE Has(papers, document)

\* iteration over a Python set: its elements in the order of this process
SetOrder(set, order) == SelectSeq(order, LAMBDA d : d \in set)

\* Papers.iterate_documents: the documents in the set's order, vaccinations
\* last and the certificate before them
\* an iteration that defers nothing: the documents in the set's order
Papers_iterate_documents_unordered(requiredset, order) == SetOrder(requiredset, order)

Papers_iterate_documents(requiredset, order) ==
    LET all == SetOrder(requiredset, order)
        plain == SelectSeq(all, LAMBDA d : ~EndsWithVaccination(d))
        defer == SelectSeq(all, LAMBDA d : EndsWithVaccination(d))
    IN  IF defer = << >> THEN plain
        ELSE plain \o << VACCINATION_CERT >> \o defer

-----------------------------------------------------------------------------
(* Judgement and the judge methods.  A judge yields the judgement, the      *)
(* state of the rule after the call, whether the call raised, and whether   *)
(* it iterated a set of two or more documents (so that the order of the     *)
(* process's sets showed).                                                  *)

Judgement(detain, deny, reason) == [detain |-> detain, deny |-> deny, reason |-> reason]

Allow == Judgement(FALSE, FALSE, "")

Judged(self, judgement) ==
    [raised |-> FALSE, self |-> self, judgement |-> judgement, iterated |-> FALSE]

Raised(self) ==
    [raised |-> TRUE, self |-> self, judgement |-> Allow, iterated |-> FALSE]

\* a display name that keeps the underscores
document_name_for_display_raw(name) ==
    IF name # VACCINATION_CERT /\ EndsWithVaccination(name)
    THEN VACCINATION
    ELSE name

\* Rule.document_name_for_display
document_name_for_display(name) ==
    IF name # VACCINATION_CERT /\ EndsWithVaccination(name)
    THEN VACCINATION
    ELSE Join(Words(name), " ")

WantedCriminals_REASON == "Entrant is a wanted criminal"

WantedCriminals_judge(self, papers) ==
    IF Papers_name(papers) = self.name
    THEN Judged(self, Judgement(TRUE, FALSE, WantedCriminals_REASON))
    ELSE Judged(self, Allow)

MISMATCH_FIELDS ==
    << [key |-> BIRTHDAY, field |-> "date of birth"],
       [key |-> NATION, field |-> "nationality"],
       [key |-> ID, field |-> "ID number"],
       [key |-> NAME, field |-> "name"] >>

EARLIEST_INVALID_DATE == "1982.11.22"

\* the values of key in the papers that have it, in the order of the papers
FieldValues(papers, key) ==
    LET having == SelectSeq(papers, LAMBDA paper : key \in DOMAIN paper.info)
    IN  [n \in DOMAIN having |-> having[n].info[key]]

\* ValidDocuments.check_mismatches: the first field, in the order of
\* MISMATCH_FIELDS, that two papers give differently; None when there is none
ValidDocuments_check_mismatches(papers) ==
    LET differs(key) ==
            LET values == FieldValues(papers, key)
            IN  \E n \in 1..(Len(values) - 1) : values[n] # values[n + 1]
        k == Least({n \in DOMAIN MISMATCH_FIELDS : differs(MISMATCH_FIELDS[n].key)})
    IN  IF k = 0 THEN None ELSE MISMATCH_FIELDS[k].field

\* ValidDocuments.check_expiration_dates: the first paper, in the order of the
\* papers, whose EXP is at or before the cutoff; None when there is none
\* a check that lets the cutoff date itself pass
ValidDocuments_check_expiration_dates_strict(papers) ==
    LET k == Least({n \in DOMAIN papers :
                      /\ EXPIRATION \in DOMAIN papers[n].info
                      /\ papers[n].info[EXPIRATION] # EARLIEST_INVALID_DATE
                      /\ StrLeq(Chars(papers[n].info[EXPIRATION]),
                                Chars(EARLIEST_INVALID_DATE))})
    IN  IF k = 0 THEN None ELSE document_name_for_display(papers[k].document)

ValidDocuments_check_expiration_dates(papers) ==
    LET k == Least({n \in DOMAIN papers :
                      /\ EXPIRATION \in DOMAIN papers[n].info
                      /\ StrLeq(Chars(papers[n].info[EXPIRATION]),
                                Chars(EARLIEST_INVALID_DATE))})
    IN  IF k = 0 THEN None ELSE document_name_for_display(papers[k].document)

ValidDocuments_validate_diplomatic_authorization(papers) ==
    ARSTOTZKA \in Papers_diplomatic_countries(papers)

\* a judge that overlooks the expiration dates
ValidDocuments_judge_lenient(self, papers) ==
    IF ValidDocuments_check_mismatches(papers) # None
    THEN Judged(self, Judgement(TRUE, FALSE,
                    ValidDocuments_check_mismatches(papers) \o " mismatch"))
    ELSE Judged(self, Allow)

ValidDocuments_judge(self, papers) ==
    IF ValidDocuments_check_mismatches(papers) # None
    THEN Judged(self, Judgement(TRUE, FALSE,
                    ValidDocuments_check_mismatches(papers) \o " mismatch"))
    ELSE IF ValidDocuments_check_expiration_dates(papers) # None
    THEN Judged(self, Judgement(FALSE, TRUE,
                    ValidDocuments_check_expiration_dates(papers) \o " expired"))
    ELSE IF /\ Has(papers, DIPLOMAT)
            /\ ~ValidDocuments_validate_diplomatic_authorization(papers)
    THEN Judged(self, Judgement(FALSE, TRUE, "invalid diplomatic authorization"))
    ELSE Judged(self, Allow)

\* a judge that exempts nobody
RequiredDocuments_judge_strict(self, papers, order) ==
        LET nation == Papers_nation(papers)
            self1 == [self EXCEPT !.categories = Touch(@, nation)]
        IN  IF Papers_worker_raises(papers) THEN Raised(self1)
            ELSE
                LET worker == Papers_worker(papers)
                    self2 == IF worker
                             THEN [self1 EXCEPT !.categories = Touch(@, WORKERS)]
                             ELSE self1
                    required ==
                        IF worker
                        THEN self2.categories[nation] \cup self2.categories[WORKERS]
                        ELSE self2.categories[nation]
                    documents == Papers_iterate_documents(required, order)
                    k == Least({n \in DOMAIN documents :
                                  \/ Papers_document_present_raises(papers, documents[n])
                                  \/ ~Papers_document_present(papers, documents[n])})
                    outcome ==
                        IF k = 0 THEN Judged(self2, Allow)
                        ELSE IF Papers_document_present_raises(papers, documents[k])
                        THEN Raised(self2)
                        ELSE Judged(self2, Judgement(FALSE, TRUE,
                                 "missing required "
                                     \o document_name_for_display(documents[k])))
                IN  [outcome EXCEPT !.iterated = Cardinality(required) >= 2]

\* a judge that merges the workers' set into the nation's set it holds
RequiredDocuments_judge_merging(self, papers, order) ==
    IF Has(papers, ASYLUM) /\ Has(papers, PASSPORT) THEN Judged(self, Allow)
    ELSE IF Has(papers, DIPLOMAT) /\ Has(papers, PASSPORT) THEN Judged(self, Allow)
    ELSE
        LET nation == Papers_nation(papers)
            self1 == [self EXCEPT !.categories = Touch(@, nation)]
        IN  IF Papers_worker_raises(papers) THEN Raised(self1)
            ELSE
                LET worker == Papers_worker(papers)
                    self2 == IF worker
                             THEN [self1 EXCEPT !.categories =
                                      [Touch(@, WORKERS) EXCEPT ![nation] =
                                          @ \cup Lookup(self1.categories, WORKERS)]]
                             ELSE self1
                    required ==
                        IF worker
                        THEN self2.categories[nation] \cup self2.categories[WORKERS]
                        ELSE self2.categories[nation]
                    documents == Papers_iterate_documents(required, order)
                    k == Least({n \in DOMAIN documents :
                                  \/ Papers_document_present_raises(papers, documents[n])
                                  \/ ~Papers_document_present(papers, documents[n])})
                    outcome ==
                        IF k = 0 THEN Judged(self2, Allow)
                        ELSE IF Papers_document_present_raises(papers, documents[k])
                        THEN Raised(self2)
                        ELSE Judged(self2, Judgement(FALSE, TRUE,
                                 "missing required "
                                     \o document_name_for_display(documents[k])))
                IN  [outcome EXCEPT !.iterated = Cardinality(required) >= 2]

\* RequiredDocuments.judge; self.categories[...] stores a missing key, and
\* papers.worker or papers.certificate_of_vaccination may raise KeyError
RequiredDocuments_judge(self, papers, order) ==
    IF Has(papers, ASYLUM) /\ Has(papers, PASSPORT) THEN Judged(self, Allow)
    ELSE IF Has(papers, DIPLOMAT) /\ Has(papers, PASSPORT) THEN Judged(self, Allow)
    ELSE
        LET nation == Papers_nation(papers)
            self1 == [self EXCEPT !.categories = Touch(@, nation)]
        IN  IF Papers_worker_raises(papers) THEN Raised(self1)
            ELSE
                LET worker == Papers_worker(papers)
                    self2 == IF worker
                             THEN [self1 EXCEPT !.categories = Touch(@, WORKERS)]
                             ELSE self1
                    required ==
                        IF worker
                        THEN self2.categories[nation] \cup self2.categories[WORKERS]
                        ELSE self2.categories[nation]
                    documents == Papers_iterate_documents(required, order)
                    k == Least({n \in DOMAIN documents :
                                  \/ Papers_document_present_raises(papers, documents[n])
                                  \/ ~Papers_document_present(papers, documents[n])})
                    outcome ==
                        IF k = 0 THEN Judged(self2, Allow)
                        ELSE IF Papers_document_present_raises(papers, documents[k])
                        THEN Raised(self2)
                        ELSE Judged(self2, Judgement(FALSE, TRUE,
                                 "missing required "
                                     \o document_name_for_display(documents[k])))
                IN  [outcome EXCEPT !.iterated = Cardinality(required) >= 2]

AllowedNations_REASON == "citizen of banned nation"

\* a judge that lets every nation in
AllowedNations_judge_open(self, papers) == Judged(self, Allow)

\* a judge that detains where it should deny
AllowedNations_judge_detaining(self, papers) ==
    IF Papers_nation(papers) \in self.whitelist
    THEN Judged(self, Allow)
    ELSE Judged(self, Judgement(TRUE, FALSE, AllowedNations_REASON))

AllowedNations_judge(self, papers) ==
    IF Papers_nation(papers) \in self.whitelist
    THEN Judged(self, Allow)
    ELSE Judged(self, Judgement(FALSE, TRUE, AllowedNations_REASON))

Rule_judge(Rule, self, papers, order) ==
    CASE Rule = "WantedCriminals" -> WantedCriminals_judge(self, papers)
      [] Rule = "ValidDocuments" -> ValidDocuments_judge(self, papers)
      [] Rule = "RequiredDocuments" -> RequiredDocuments_judge(self, papers, order)
      [] Rule = "AllowedNations" -> AllowedNations_judge(self, papers)

-----------------------------------------------------------------------------
(* class Inspector: the inspection *)

CITIZEN_ENTRY_MESSAGE == "Glory to " \o ARSTOTZKA \o "."
FOREIGNER_ENTRY_MESSAGE == "Cause no trouble."

\* a greeting that takes everybody for a foreigner
entry_message_foreigner(nation) == FOREIGNER_ENTRY_MESSAGE

entry_message(nation) ==
    IF nation = ARSTOTZKA THEN CITIZEN_ENTRY_MESSAGE ELSE FOREIGNER_ENTRY_MESSAGE

deny_message(reason) == "Entry denied: " \o reason \o "."

detain_message(reason) == "Detainment: " \o reason \o "."

\* the rules with the last two inserted the other way round
RuleOrder_nations_first ==
    << "WantedCriminals", "ValidDocuments", "AllowedNations", "RequiredDocuments" >>

\* self.rules.values(): the keys of the dict in the order __init__ inserts them
RuleOrder ==
    << "WantedCriminals", "ValidDocuments", "RequiredDocuments", "AllowedNations" >>

RECURSIVE InspectFrom(_, _, _, _)

\* the body of the loop of inspect, j being what the k-th rule's judge yields
InspectJudged(self, papers, order, k, j) ==
    IF j.raised
    THEN [rules |-> [self EXCEPT ![RuleOrder[k]] = j.self], raised |-> TRUE,
          iterated |-> j.iterated, result |-> KeyError]
    ELSE IF j.judgement.detain
    THEN [rules |-> [self EXCEPT ![RuleOrder[k]] = j.self], raised |-> FALSE,
          iterated |-> j.iterated, result |-> detain_message(j.judgement.reason)]
    ELSE IF j.judgement.deny
    THEN [rules |-> [self EXCEPT ![RuleOrder[k]] = j.self], raised |-> FALSE,
          iterated |-> j.iterated, result |-> deny_message(j.judgement.reason)]
    ELSE [InspectFrom([self EXCEPT ![RuleOrder[k]] = j.self], papers, order, k + 1)
             EXCEPT !.iterated = @ \/ j.iterated]

\* the loop of inspect from the k-th rule on
InspectFrom(self, papers, order, k) ==
    IF k > Len(RuleOrder)
    THEN [rules |-> self, raised |-> FALSE, iterated |-> FALSE,
          result |-> entry_message(Papers_nation(papers))]
    ELSE InspectJudged(self, papers, order, k,
             Rule_judge(RuleOrder[k], self[RuleOrder[k]], papers, order))

\* Inspector.inspect: the rules after the call, whether it raised, and the
\* message returned (the name of the exception when it raised)
inspect(self, entrant, order) ==
    IF Papers_raises(entrant)
    THEN [rules |-> self, raised |-> TRUE, iterated |-> FALSE, result |-> ValueError]
    ELSE InspectFrom(self, Papers(entrant), order, 1)

-----------------------------------------------------------------------------
(* The inputs of the model: bulletin lines and entrants *)

Line_wanted(first_name, last_name) ==
    << "Wanted", "by", "the", "State", COLON, first_name, last_name >>

Line_require(category, nolonger, documents) ==
    category \o (IF nolonger THEN << "no", "longer" >> ELSE << >>)
        \o << "require" >> \o documents

Line_nations(verb, countrys) == << verb, "citizens", "of" >> \o countrys

WantedNames == { << "John", "Smith" >>, << "Jane", "Doe" >> }

CategoryPhrases ==
    { << "Antegria" >>, << WORKERS >>, << ENTRANTS >>, << FOREIGNERS >>,
      << "Citizens", "of", "Arstotzka", COMMA, "Antegria" >> }

DocumentLists ==
    { << "passport" >>, << "passport", COMMA, "ID", "card" >>,
      << "measles", "vaccination" >> }

NationLists == { << "Arstotzka" >>, << "Arstotzka", COMMA, "Antegria" >> }

WantedLines == {Line_wanted(n[1], n[2]) : n \in WantedNames}

RequireLines ==
    {Line_require(c, n, d) : c \in CategoryPhrases, n \in BOOLEAN, d \in DocumentLists}

NationLines == {Line_nations(v, c) : v \in {"Allow", "Deny"}, c \in NationLists}

\* lines no rule class matches: narrative text, and the empty line
NarrativeLines == { << "Glory", "to", "Arstotzka" >>, << >> }

\* lines a rule class matches and cannot parse: one word after the colon of
\* a wanted line, and 'citizens of' after neither Allow nor Deny
UnparsedLines ==
    { << "Wanted", COLON, "John" >>, << "Ban", "citizens", "of", "Antegria" >> }

Lines ==
    WantedLines \cup RequireLines \cup NationLines \cup NarrativeLines
        \cup UnparsedLines

\* bulletins of three lines, the second of which cannot be parsed
BrokenBulletins ==
    { << Line_nations("Allow", << "Arstotzka", COMMA, "Antegria" >>),
         << "Wanted", COLON, "John" >>,
         Line_wanted("Jane", "Doe") >>,
      << Line_wanted("Jane", "Doe"),
         << "Ban", "citizens", "of", "Antegria" >>,
         Line_require(<< WORKERS >>, FALSE, << "passport" >>) >> }

\* a bulletin of two directives with narrative text and an empty line between
NarratedBulletins ==
    { << Line_wanted("John", "Smith"), << "Glory", "to", "Arstotzka" >>, << >>,
         Line_wanted("Jane", "Doe") >> }

Bulletins ==
    {<< line >> : line \in Lines} \cup BrokenBulletins \cup NarratedBulletins

\* the bulletins that set up the rules an inspection is judged by
CoreBulletins ==
    { << Line_wanted("John", "Smith") >>,
      << Line_require(<< ENTRANTS >>, FALSE, << "passport", COMMA, "ID", "card" >>) >>,
      << Line_require(<< FOREIGNERS >>, FALSE, << "measles", "vaccination" >>) >>,
      << Line_require(<< WORKERS >>, FALSE, << "passport", COMMA, "ID", "card" >>) >>,
      << Line_nations("Allow", << "Arstotzka", COMMA, "Antegria" >>) >>,
      << Line_nations("Deny", << "Arstotzka" >>) >> }

\* the document identifiers a bulletin of the model can require
Documents == {"passport", "ID_card", "measles_vaccination"}

\* the orders in which a set of these may be iterated
Orders ==
    {o \in [1..Cardinality(Documents) -> Documents] :
        \A i, j \in DOMAIN o : i # j => o[i] # o[j]}

AnyOrder == CHOOSE o \in Orders : TRUE

Doc(document, infostr) == [document |-> document, infostr |-> infostr]

VALID_DATE == "1983.01.01"
EXPIRED_DATE == "1982.11.20"

Passport(name, nation, exp) ==
    Doc(PASSPORT, << << NAME, name >>, << NATION, nation >>, << EXPIRATION, exp >> >>)

IdCard(name) == Doc(IDCARD, << << NAME, name >> >>)

\* what an entrant presents besides a passport
OtherPapers ==
    { << >>,
      << IdCard("Doe, Jane") >>,
      << Doc(IDCARD, << << NAME, "Doe, Jane" >>, << NATION, "Impor" >> >>) >>,
      << Doc(ACCESS_PERMIT, << << PURPOSE, WORK >> >>) >>,
      << Doc(ACCESS_PERMIT, << << PURPOSE, "TRANSIT" >> >>) >>,
      << Doc(VACCINATION_CERT, << << VACCINES, "polio, measles" >> >>) >>,
      << Doc(VACCINATION_CERT, << << VACCINES, "polio" >> >>) >>,
      << Doc(DIPLOMAT, << << ACCESS, "Antegria, Arstotzka" >> >>) >>,
      << Doc(DIPLOMAT, << << ACCESS, "Antegria" >> >>) >>,
      << Doc(ASYLUM, << << NAME, "Doe, Jane" >> >>) >>,
      << Doc(ACCESS_PERMIT, << << NAME, "Doe, Jane" >> >>) >>,
      << Doc(VACCINATION_CERT, << << VACCINES >> >>) >> }

Entrants ==
    { << >>, << IdCard("Doe, Jane") >>, << IdCard("") >>,
      << Doc(IDCARD, << << NAME, "Doe, Jane" >>, << EXPIRATION, EXPIRED_DATE >> >>) >> }
    \cup {<< Passport("Doe, Jane", "Antegria", VALID_DATE) >> \o o : o \in OtherPapers}
    \cup { << Passport("Doe, Jane", "Arstotzka", VALID_DATE) >>,
           << Passport("Doe, Jane", "Antegria", EXPIRED_DATE) >>,
           << Passport("Roe, Jane", "Cobrastan", VALID_DATE) >>,
           << Passport("Smith, John", "Antegria", VALID_DATE) >>,
           << Passport("Smith, John", "Antegria", EXPIRED_DATE) >>,
           << Passport("Smith, John", "Antegria", VALID_DATE), IdCard("Doe, Jane") >>,
           << IdCard("Doe, Jane"), Passport("Smith, John", "Antegria", VALID_DATE) >>,
           << Doc(IDCARD, << << NAME, "Doe, Jane" >>, << EXPIRATION, EXPIRED_DATE >> >>),
              Passport("Doe, Jane", "Antegria", EXPIRED_DATE) >>,
           << Passport("Doe, Jane", "Antegria", VALID_DATE), IdCard("Doe, Jane"),
              Doc(VACCINATION_CERT, << << VACCINES, "polio, measles" >> >>) >>,
           << Passport("Doe, Jane", "Antegria", VALID_DATE),
              Doc("measles_vaccination", << << NAME, "Doe, Jane" >> >>) >>,
           << Doc(IDCARD, << << NAME, "Doe", "Jane" >> >>) >> }

\* the entrant inspected between the bulletins of SpecBulletin: a worker
Bystanders ==
    { << Passport("Doe, Jane", "Antegria", VALID_DATE),
         Doc(ACCESS_PERMIT, << << PURPOSE, WORK >> >>) >> }

-----------------------------------------------------------------------------
(* History: how a bulletin relates to the bulletin of the call before it *)

\* the rule class that takes the line; "" when none matches
Kind(line) ==
    LET k == Least({n \in DOMAIN Rules : Rule_matches(Rules[n], line)})
    IN  IF k = 0 THEN "" ELSE Rules[k]

\* b is 'X no longer require Y' and a is 'X require Y'
IsInverse(a, b) ==
    \E c \in CategoryPhrases, d \in DocumentLists :
        a = << Line_require(c, FALSE, d) >> /\ b = << Line_require(c, TRUE, d) >>

\* a names a list 'A, B' positively and b names A alone negatively
IsMinusFirst(a, b) ==
    \/ \E c \in CategoryPhrases, d \in DocumentLists :
          /\ Len(SplitComma(d)) = 2
          /\ a = << Line_require(c, FALSE, d) >>
          /\ b = << Line_require(c, TRUE, SplitComma(d)[1]) >>
    \/ \E n \in NationLists :
          /\ Len(SplitComma(n)) = 2
          /\ a = << Line_nations("Allow", n) >>
          /\ b = << Line_nations("Deny", SplitComma(n)[1]) >>

\* a and b are one directive each, of different rule kinds
IsOtherKind(a, b) ==
    /\ Len(a) = 1 /\ Len(b) = 1
    /\ Kind(a[1]) # "" /\ Kind(b[1]) # "" /\ Kind(a[1]) # Kind(b[1])

BulletinRelation ==
    [a \in Bulletins, b \in Bulletins |->
        IF a = b THEN "same"
        ELSE IF IsInverse(a, b) THEN "inverse"
        ELSE IF IsMinusFirst(a, b) THEN "minus_first"
        ELSE IF IsOtherKind(a, b) THEN "other_kind"
        ELSE "none"]

Relation(previous, op, arg) ==
    IF previous.op # op THEN "none"
    ELSE IF op = "receive_bulletin" THEN BulletinRelation[previous.arg, arg]
    ELSE IF previous.arg = arg THEN "same"
    ELSE "none"

\* the rules before the call that preceded this one, kept for the pairs the
\* properties below speak about
Before2(previous, relation) ==
    IF relation \in {"same", "inverse", "minus_first"} THEN previous.before ELSE << >>

-----------------------------------------------------------------------------
(* The state machine *)

Init ==
    /\ rules = Inspector_init
    /\ hashorder = << >>
    /\ last = [op |-> "init", arg |-> << >>, before |-> Inspector_init,
               out |-> None, rel |-> "none", before2 |-> << >>]
    /\ calls = [receive_bulletin |-> 0, inspect |-> 0]

\* the call returns (or raises): r is what receive_bulletin yields
Return_receive_bulletin(bulletinstr, r, relation) ==
    /\ rules' = r.rules
    /\ last' = [op |-> "receive_bulletin", arg |-> bulletinstr,
                before |-> rules,
                out |-> IF r.raised THEN ValueError ELSE None,
                rel |-> relation, before2 |-> Before2(last, relation)]
    /\ UNCHANGED hashorder

\* inspector.receive_bulletin(bulletinstr)
Call_receive_bulletin(bulletinstr) ==
    /\ calls.receive_bulletin < MaxBulletins
    /\ calls' = [calls EXCEPT !.receive_bulletin = @ + 1]
    /\ Return_receive_bulletin(bulletinstr, receive_bulletin(rules, bulletinstr),
           Relation(last, "receive_bulletin", bulletinstr))

\* the call returns (or raises): r is what inspect yields under order
Return_inspect(entrant, order, r) ==
    /\ rules' = r.rules
    /\ last' = [op |-> "inspect", arg |-> entrant, before |-> rules,
                out |-> r.result, rel |-> Relation(last, "inspect", entrant),
                before2 |-> << >>]
    /\ hashorder' = IF r.iterated THEN order ELSE hashorder

\* The order in which this process iterates its sets is one of Orders from
\* the start; the model fixes it at the first call in which it shows.  probe
\* is what inspect yields under the order known, or under any when none is.
Order_inspect(entrant, probe) ==
    IF hashorder # << >> THEN Return_inspect(entrant, hashorder, probe)
    ELSE IF ~probe.iterated THEN Return_inspect(entrant, AnyOrder, probe)
    ELSE \E order \in Orders :
             Return_inspect(entrant, order, inspect(rules, entrant, order))

\* inspector.inspect(entrant)
Call_inspect(entrant) ==
    /\ calls.inspect < MaxInspections
    /\ calls' = [calls EXCEPT !.inspect = @ + 1]
    /\ Order_inspect(entrant,
           inspect(rules, entrant, IF hashorder # << >> THEN hashorder ELSE AnyOrder))

ReceiveBulletin == \E bulletinstr \in Bulletins : Call_receive_bulletin(bulletinstr)

InspectBystander == \E entrant \in Bystanders : Call_inspect(entrant)

ReceiveCoreBulletin == \E bulletinstr \in CoreBulletins : Call_receive_bulletin(bulletinstr)

Inspect == \E entrant \in Entrants : Call_inspect(entrant)

\* every directive of the vocabulary, a few inspections in between
NextBulletin == ReceiveBulletin \/ InspectBystander

SpecBulletin == Init /\ [][NextBulletin]_vars

\* every entrant of the vocabulary, under the rules the core bulletins set up
Next == ReceiveCoreBulletin \/ Inspect

Spec == Init /\ [][Next]_vars

\* Papers(entrant).document_present(document), called on its own: the outcome
\* is the error raised, or the repr of the bool returned
Call_document_present(entrant, document) ==
    /\ last' = [op |-> "document_present", arg |-> << entrant, document >>,
                before |-> rules,
                out |-> IF Papers_raises(entrant) THEN ValueError
                        ELSE IF Papers_document_present_raises(Papers(entrant), document)
                        THEN KeyError
                        ELSE IF Papers_document_present(Papers(entrant), document)
                        THEN "True"
                        ELSE "False",
                rel |-> "none", before2 |-> << >>]
    /\ UNCHANGED << rules, hashorder, calls >>

DocumentPresent ==
    \E entrant \in Entrants, document \in DOMAIN WordsOf :
        Call_document_present(entrant, document)

\* Papers(entrant).nation, read on its own
Call_nation(entrant) ==
    /\ last' = [op |-> "nation", arg |-> entrant, before |-> rules,
                out |-> IF Papers_raises(entrant) THEN ValueError
                        ELSE Papers_nation(Papers(entrant)),
                rel |-> "none", before2 |-> << >>]
    /\ UNCHANGED << rules, hashorder, calls >>

Nation == \E entrant \in Entrants : Call_nation(entrant)

\* submissions of one passport, expiring on each date of the vocabulary
DatedEntrants ==
    {<< Doc(PASSPORT, << << EXPIRATION, date >> >>) >> : date \in DOMAIN CharsOf}

\* ValidDocuments().check_expiration_dates(Papers(entrant)), called on its own
Call_check_expiration_dates(entrant) ==
    /\ last' = [op |-> "check_expiration_dates", arg |-> entrant, before |-> rules,
                out |-> IF Papers_raises(entrant) THEN ValueError
                        ELSE ValidDocuments_check_expiration_dates(Papers(entrant)),
                rel |-> "none", before2 |-> << >>]
    /\ UNCHANGED << rules, hashorder, calls >>

CheckExpirationDates ==
    \E entrant \in DatedEntrants \cup Entrants : Call_check_expiration_dates(entrant)

\* every entrant of the vocabulary, asked for every document of the vocabulary
\* and for its nation; every date of the vocabulary, checked for expiration
NextPapers == DocumentPresent \/ Nation \/ CheckExpirationDates

SpecPapers == Init /\ [][NextPapers]_vars

-----------------------------------------------------------------------------
(* Properties of the inspection (specification Spec)                        *)

\* the inspection `last` records returned a message
Returned == last.op = "inspect" /\ last.out \notin {ValueError, KeyError}

\* the papers of the inspection `last` records
LastPapers == Papers(last.arg)

\* the order of the process's sets; any one when it never showed
LastOrder == IF hashorder = << >> THEN AnyOrder ELSE hashorder

\* the priority order the rules are said to have
PriorityOrder ==
    << "WantedCriminals", "ValidDocuments", "RequiredDocuments", "AllowedNations" >>

\* the judgement of each rule on its own, in the priority order
Judgements(before, papers, order) ==
    [k \in DOMAIN PriorityOrder |->
        Rule_judge(PriorityOrder[k], before[PriorityOrder[k]], papers, order).judgement]

\* the first rule whose judgement is not Allow, 0 when all allow
FirstNotAllow(J) == Least({k \in DOMAIN J : J[k] # Allow})

\* the rules with those after the k-th replaced by the ones of other
LaterRulesReplaced(before, k, other) ==
    [name \in DOMAIN before |->
        IF \E n \in (k + 1)..Len(PriorityOrder) : PriorityOrder[n] = name
        THEN other[name]
        ELSE before[name]]

\* other registries: the initial one, and one that requires and allows
OtherRules ==
    { Inspector_init,
      receive_bulletin(Inspector_init,
          << Line_wanted("Jane", "Doe"),
             Line_require(<< ENTRANTS >>, FALSE, << "passport", COMMA, "ID", "card" >>),
             Line_nations("Allow", << "Arstotzka", COMMA, "Antegria" >>) >>).rules }

\* C1: inspect returns the message of the first rule, in the order wanted
\* criminal, document validity, required documents, allowed nations, whose
\* judgement is not Allow (the greeting when all allow), and the rules after
\* that one have no influence: with their state replaced the message is the same
C1_FirstNotAllowDecides ==
    Returned =>
        LET J == Judgements(last.before, LastPapers, LastOrder)
            k == FirstNotAllow(J)
        IN  IF k = 0
            THEN last.out = entry_message(Papers_nation(LastPapers))
            ELSE /\ last.out = IF J[k].detain THEN detain_message(J[k].reason)
                               ELSE deny_message(J[k].reason)
                 /\ \A other \in OtherRules :
                        inspect(LaterRulesReplaced(last.before, k, other),
                                last.arg, LastOrder).result = last.out

\* C1 witness: the required-documents rule decided an inspection that the
\* allowed-nations rule after it would have denied as well
C1_Witness ==
    /\ Returned
    /\ LET J == Judgements(last.before, LastPapers, LastOrder)
       IN  FirstNotAllow(J) = 3 /\ J[4] # Allow /\ J[4].reason # J[3].reason

\* a submission whose text parses and whose documents carry the fields the
\* code reads without asking: PURPOSE of an access permit, VACCINES of a
\* certificate of vaccination
WellFormed(entrant) ==
    /\ ~Papers_raises(entrant)
    /\ ~Papers_worker_raises(Papers(entrant))
    /\ ~Papers_certificate_raises(Papers(entrant))

Reasons ==
    {WantedCriminals_REASON, AllowedNations_REASON, "invalid diplomatic authorization"}
        \cup {MISMATCH_FIELDS[n].field \o " mismatch" : n \in DOMAIN MISMATCH_FIELDS}
        \cup {document_name_for_display(d) \o " expired" : d \in DOMAIN WordsOf}
        \cup {"missing required " \o document_name_for_display(d) : d \in DOMAIN WordsOf}

\* message is a 'Detainment' message
IsDetainment(message) == \E reason \in Reasons : message = "Detainment: " \o reason \o "."

\* C3 as stated: only the wanted-criminal rule detains, so every Detainment
\* comes from the name matching the held wanted name
C3_OnlyWantedDetains ==
    Returned =>
        LET J == Judgements(last.before, LastPapers, LastOrder)
        IN  /\ ~J[2].detain /\ ~J[3].detain /\ ~J[4].detain
            /\ IsDetainment(last.out) =>
                   Papers_name(LastPapers) = last.before.WantedCriminals.name

\* C3 as amended: the wanted-criminal rule and the document-validity rule can
\* detain, the latter exactly when two documents disagree on a field; the
\* required-documents and allowed-nations rules allow or deny; every
\* Detainment is a name match or a field mismatch
C3_DetainmentIsMatchOrMismatch ==
    Returned =>
        LET J == Judgements(last.before, LastPapers, LastOrder)
            wanted == last.before.WantedCriminals.name
            mismatch == ValidDocuments_check_mismatches(LastPapers)
        IN  /\ ~J[3].detain /\ ~J[4].detain
            /\ J[2].detain <=> mismatch # None
            /\ J[1].detain <=> Papers_name(LastPapers) = wanted
            /\ IsDetainment(last.out) =>
                   \/ /\ Papers_name(LastPapers) = wanted
                      /\ last.out = "Detainment: Entrant is a wanted criminal."
                   \/ /\ Papers_name(LastPapers) # wanted
                      /\ mismatch # None
                      /\ last.out = "Detainment: " \o mismatch \o " mismatch."

\* C3 witness: an entrant nobody wants was detained for a name mismatch
C3_Witness ==
    /\ Returned
    /\ last.out = "Detainment: name mismatch."
    /\ Papers_name(LastPapers) # last.before.WantedCriminals.name

\* C9: two consecutive inspect calls with the same submission, no bulletin in
\* between, return the same message (or raise the same exception)
C9_InspectIdempotent ==
    [][(/\ last.op = "inspect"
        /\ last'.op = "inspect"
        /\ calls'.inspect = calls.inspect + 1
        /\ last'.arg = last.arg) => last'.out = last.out]_vars

\* C9 witness: a submission was inspected twice in a row, the first call
\* having stored a key in the categories, and a message came back
C9_Witness ==
    /\ Returned
    /\ last.rel = "same"
    /\ calls.inspect = 2
    /\ DOMAIN last.before.RequiredDocuments.categories # {}

\* the only document is an ID card without a NATION field, every line of
\* which is a key and a value
OnlyIdCardWithoutNation(entrant) ==
    /\ Len(entrant) = 1
    /\ entrant[1].document = IDCARD
    /\ Len(entrant[1].infostr) >= 1
    /\ ~Papers_raises(entrant)
    /\ \A l \in DOMAIN entrant[1].infostr : entrant[1].infostr[l][1] # NATION

\* an inspection of such an entrant with no bulletin received before it
FreshIdCardInspection ==
    /\ last.op = "inspect"
    /\ calls.receive_bulletin = 0
    /\ OnlyIdCardWithoutNation(last.arg)

\* C10 as stated: on a fresh Inspector the holder of only an ID card without
\* NATION is an Arstotzkan and gets the citizen greeting
C10_FreshIdCardGreeted ==
    FreshIdCardInspection =>
        /\ Papers_nation(LastPapers) = ARSTOTZKA
        /\ last.out = CITIZEN_ENTRY_MESSAGE

\* C10 as amended: on a fresh Inspector the holder of only an ID card without
\* NATION is an Arstotzkan, and is denied as a citizen of a banned nation, the
\* whitelist being empty (detained when the NAME is the empty string, denied
\* for the expired card when its EXP is at or before the cutoff); the citizen
\* greeting is returned once Arstotzka is allowed and nothing else is set
C10_FreshIdCardDenied ==
    /\ FreshIdCardInspection =>
          LET info == Paper(LastPapers, IDCARD)
          IN  /\ Papers_nation(LastPapers) = ARSTOTZKA
              /\ last.out =
                     IF NAME \in DOMAIN info /\ info[NAME] = ""
                     THEN "Detainment: Entrant is a wanted criminal."
                     ELSE IF EXPIRATION \in DOMAIN info
                     THEN "Entry denied: ID card expired."
                     ELSE "Entry denied: citizen of banned nation."
    /\ (/\ last.op = "inspect"
        /\ OnlyIdCardWithoutNation(last.arg)
        /\ last.arg = << IdCard("Doe, Jane") >>
        /\ last.before.WantedCriminals = WantedCriminals_init
        /\ \A c \in DOMAIN last.before.RequiredDocuments.categories :
               last.before.RequiredDocuments.categories[c] = {}
        /\ ARSTOTZKA \in last.before.AllowedNations.whitelist)
           => last.out = "Glory to Arstotzka."

\* C10 witness: the first call of a fresh Inspector denied the holder of an
\* ID card without NATION
C10_Witness ==
    /\ FreshIdCardInspection
    /\ calls.inspect = 1
    /\ last.arg = << IdCard("Doe, Jane") >>
    /\ last.out = "Entry denied: citizen of banned nation."

-----------------------------------------------------------------------------
(* Properties of the bulletins (specification SpecBulletin)                 *)

\* every category requires the same documents in a and in b
SameRequired(a, b) ==
    \A c \in DOMAIN a.RequiredDocuments.categories
                 \cup DOMAIN b.RequiredDocuments.categories :
        Lookup(a.RequiredDocuments.categories, c)
            = Lookup(b.RequiredDocuments.categories, c)

\* the wanted name, every category's documents and the whitelist agree
SameRegistry(a, b) ==
    /\ a.WantedCriminals.name = b.WantedCriminals.name
    /\ SameRequired(a, b)
    /\ a.AllowedNations.whitelist = b.AllowedNations.whitelist

\* the last two calls received bulletins, each one directive
TwoBulletins == last.op = "receive_bulletin" /\ last.rel # "none"

\* C4: a recognized directive received twice in a row leaves the wanted name,
\* every category's required documents and the whitelist as they were after
\* the first time
C4_AbsorptionIdempotent ==
    (TwoBulletins /\ last.rel = "same" /\ Kind(last.arg[1]) # "")
        => SameRegistry(rules, last.before)

\* C4 witness: a directive that changed the registry the first time was
\* received a second time
C4_Witness ==
    /\ TwoBulletins /\ last.rel = "same"
    /\ Kind(last.arg[1]) = "RequiredDocuments"
    /\ ~SameRegistry(last.before, last.before2)

\* the documents of the directive are required, before the pair, by no
\* category the directive covers
NotRequiredBefore ==
    LET other == RequiredDocuments_parse(last.arg[1])
    IN  \A c \in DOMAIN other.categories :
            Lookup(last.before2.RequiredDocuments.categories, c)
                \cap other.categories[c] = {}

\* C5 as stated: 'X require Y' then 'X no longer require Y', X one category
\* word, restores every category's required documents
C5_NoLongerRestores ==
    (TwoBulletins /\ last.rel = "inverse" /\ last.arg[1][2] = "no")
        => SameRequired(rules, last.before2)

\* C5 as amended: 'X require Y' then 'X no longer require Y' restores every
\* category's required documents when, before the pair, no category X covers
\* required a document of Y
C5_NoLongerRestoresNew ==
    (TwoBulletins /\ last.rel = "inverse" /\ NotRequiredBefore)
        => SameRequired(rules, last.before2)

\* C5 witness: the pair was received by a registry in which a category it
\* covers required another document
C5_Witness ==
    /\ TwoBulletins /\ last.rel = "inverse" /\ NotRequiredBefore
    /\ \E c \in DOMAIN RequiredDocuments_parse(last.arg[1]).categories :
           Lookup(last.before2.RequiredDocuments.categories, c) # {}

\* C6: two directives of different rule kinds, received one after the other,
\* leave the rules as the two received in the other order would
C6_OtherKindsCommute ==
    [][(/\ last.op = "receive_bulletin"
        /\ last'.op = "receive_bulletin"
        /\ calls'.receive_bulletin = calls.receive_bulletin + 1
        /\ IsOtherKind(last.arg, last'.arg))
           => rules' = receive_bulletin(
                           receive_bulletin(last.before, last'.arg).rules,
                           last.arg).rules]_vars

\* C6 witness: two directives of different kinds were received, and each
\* changed the registry
C6_Witness ==
    /\ TwoBulletins /\ last.rel = "other_kind"
    /\ calls.receive_bulletin = 2
    /\ ~SameRegistry(last.before, Inspector_init)
    /\ ~SameRegistry(rules, last.before)

\* the categories a category phrase stands for
Covered(phrase) ==
    IF phrase = << ENTRANTS >> THEN Range(COUNTRIES)
    ELSE IF phrase = << FOREIGNERS >> THEN Range(Tail(COUNTRIES))
    ELSE IF phrase[1] = "Citizens" THEN {"Arstotzka", "Antegria"}
    ELSE {phrase[1]}

\* 'X require passport, ID card' then 'X no longer require passport' were
\* received, no category X covers requiring anything before
RequiredMinusFirst(phrase) ==
    /\ TwoBulletins /\ last.rel = "minus_first"
    /\ last.arg = << Line_require(phrase, TRUE, << "passport" >>) >>
    /\ \A c \in Covered(phrase) :
           Lookup(last.before2.RequiredDocuments.categories, c) = {}

\* C7: with no prior requirements of X, 'X require A, B' then 'X no longer
\* require A' leaves exactly {B} required, for every nation that Entrants or
\* Foreigners stand for
C7_RequireMinusFirst ==
    \A phrase \in CategoryPhrases :
        RequiredMinusFirst(phrase) =>
            \A c \in Covered(phrase) :
                Lookup(rules.RequiredDocuments.categories, c) = {"ID_card"}

\* C7 witness: the pair was received for Foreigners
C7_Witness == RequiredMinusFirst(<< FOREIGNERS >>)

\* 'Allow citizens of Arstotzka, Antegria' then 'Deny citizens of Arstotzka'
\* were received, the whitelist being empty before
AllowedMinusFirst ==
    /\ TwoBulletins /\ last.rel = "minus_first"
    /\ last.arg = << Line_nations("Deny", << "Arstotzka" >>) >>
    /\ last.before2.AllowedNations.whitelist = {}

\* C8: with an empty whitelist, 'Allow citizens of A, B' then 'Deny citizens
\* of A' leaves the whitelist exactly {B}
C8_AllowMinusFirst == AllowedMinusFirst => rules.AllowedNations.whitelist = {"Antegria"}

\* C8 witness: the pair was received with an empty whitelist
C8_Witness == AllowedMinusFirst /\ last.before.AllowedNations.whitelist # {}

-----------------------------------------------------------------------------
(* Scenarios of the inspection (specification Spec)                         *)

\* the wanted-criminal rule after the bulletin 'Wanted: John Smith'
WantedJohnSmith ==
    receive_bulletin(Inspector_init,
        << << "Wanted", COLON, "John", "Smith" >> >>).rules.WantedCriminals

\* the submission parses and its passport gives name as the NAME
PassportName(entrant, name) ==
    /\ ~Papers_raises(entrant)
    /\ \E n \in DOMAIN entrant :
           /\ entrant[n].document = PASSPORT
           /\ \E l \in DOMAIN entrant[n].infostr :
                  entrant[n].infostr[l] = << NAME, name >>

\* no document presented before the passport carries a NAME
PassportNamesFirst(entrant) ==
    \A n \in DOMAIN entrant :
        (\E m \in (n + 1)..Len(entrant) : entrant[m].document = PASSPORT)
            => \A l \in DOMAIN entrant[n].infostr : entrant[n].infostr[l][1] # NAME

\* John Smith, wanted, was inspected
SmithInspected ==
    /\ last.op = "inspect"
    /\ last.before.WantedCriminals = WantedJohnSmith
    /\ PassportName(last.arg, "Smith, John")

\* C11 as stated: after 'Wanted: John Smith' every entrant whose passport
\* NAME is 'Smith, John' gets 'Detainment: Entry is a wanted criminal.'
C11_SmithDetainedEntry ==
    SmithInspected => last.out = "Detainment: Entry is a wanted criminal."

\* C11 as amended: after 'Wanted: John Smith' every entrant whose passport
\* NAME is 'Smith, John', no document presented before the passport carrying
\* a NAME, gets 'Detainment: Entrant is a wanted criminal.', whichever other
\* documents are presented and whatever the other rules hold; with another
\* NAME presented before the passport the entrant is detained for a mismatch
C11_SmithDetainedEntrant ==
    SmithInspected =>
        IF PassportNamesFirst(last.arg)
        THEN last.out = "Detainment: Entrant is a wanted criminal."
        ELSE \E n \in DOMAIN MISMATCH_FIELDS :
                 last.out = "Detainment: " \o MISMATCH_FIELDS[n].field \o " mismatch."

\* C11 witness: John Smith was detained as wanted though he presented an ID
\* card in another name and the registry required documents he lacks
C11_Witness ==
    /\ SmithInspected
    /\ PassportNamesFirst(last.arg)
    /\ Len(last.arg) = 2
    /\ DOMAIN last.before.RequiredDocuments.categories # {}
    /\ last.out = "Detainment: Entrant is a wanted criminal."

\* the required-documents rule after 'Entrants require passport, ID_card'
EntrantsRequireBoth ==
    receive_bulletin(Inspector_init,
        << << ENTRANTS, "require", "passport", COMMA, "ID_card" >> >>)
            .rules.RequiredDocuments

\* every requirement of rule is one of the registry
RequiresAtLeast(registry, rule) ==
    \A c \in DOMAIN rule.categories :
        rule.categories[c] \subseteq Lookup(registry.RequiredDocuments.categories, c)

\* the only document is a passport, without EXP or valid until 1983.01.01
OnlyValidPassport(entrant) ==
    /\ Len(entrant) = 1
    /\ entrant[1].document = PASSPORT
    /\ ~Papers_raises(entrant)
    /\ \A l \in DOMAIN entrant[1].infostr :
           entrant[1].infostr[l][1] = EXPIRATION
               => entrant[1].infostr[l][2] = "1983.01.01"

\* an entrant nobody wants, with only a valid passport, was inspected under
\* the requirements of 'Entrants require passport, ID_card'
PassportOnlyInspected ==
    /\ last.op = "inspect"
    /\ RequiresAtLeast(last.before, EntrantsRequireBoth)
    /\ OnlyValidPassport(last.arg)
    /\ Papers_name(LastPapers) # last.before.WantedCriminals.name

\* C12 as stated: after 'Entrants require passport, ID_card' an entrant who
\* is not wanted and presents only a valid passport gets 'Entry denied:
\* missing required ID card.'
C12_MissingIdCard ==
    PassportOnlyInspected => last.out = "Entry denied: missing required ID card."

\* C12 as amended: the same, for a passport whose NATION is absent or one of
\* COUNTRIES; a passport of another nation is required nothing by 'Entrants'
C12_MissingIdCardListed ==
    PassportOnlyInspected =>
        IF \E n \in DOMAIN COUNTRIES : COUNTRIES[n] = Papers_nation(LastPapers)
        THEN last.out = "Entry denied: missing required ID card."
        ELSE last.out # "Entry denied: missing required ID card."

\* C12 witness: an Antegrian with only a valid passport was denied for the
\* missing ID card
C12_Witness ==
    /\ PassportOnlyInspected
    /\ Papers_nation(LastPapers) = "Antegria"
    /\ last.out = "Entry denied: missing required ID card."

\* the documents of papers, by position, whose EXP is at or before the cutoff
ExpiredAt(papers) ==
    {n \in DOMAIN papers :
        /\ EXPIRATION \in DOMAIN papers[n].info
        /\ StrLeq(Chars(papers[n].info[EXPIRATION]), Chars("1982.11.22"))}

\* an entrant whose papers parse and who is not detained was inspected, with
\* a passport whose EXP is before the cutoff
ExpiredPassportInspected ==
    /\ last.op = "inspect"
    /\ ~Papers_raises(last.arg)
    /\ ~Judgements(last.before, LastPapers, LastOrder)[1].detain
    /\ ~Judgements(last.before, LastPapers, LastOrder)[2].detain
    /\ \E n \in ExpiredAt(LastPapers) :
           /\ LastPapers[n].document = PASSPORT
           /\ LastPapers[n].info[EXPIRATION] # "1982.11.22"

\* C13 as stated: an entrant who is not detained and whose passport expired
\* before 1982.11.22 is denied with 'passport expired', in every registry
C13_PassportExpired ==
    ExpiredPassportInspected => last.out = "Entry denied: passport expired."

\* C13 as amended: such an entrant is denied with '<document> expired' for
\* the first presented document whose EXP is at or before the cutoff (the
\* passport when no document before it expired), whatever the required
\* documents and the allowed nations are
C13_FirstExpiredDocument ==
    ExpiredPassportInspected =>
        /\ last.out = "Entry denied: "
               \o document_name_for_display(
                      LastPapers[Least(ExpiredAt(LastPapers))].document)
               \o " expired."
        /\ LastPapers[Least(ExpiredAt(LastPapers))].document = PASSPORT
               => last.out = "Entry denied: passport expired."
        /\ rules = last.before

\* C13 witness: an expired passport was denied as expired although a required
\* document was missing and the nation was not allowed
C13_Witness ==
    /\ ExpiredPassportInspected
    /\ last.out = "Entry denied: passport expired."
    /\ Judgements(last.before, LastPapers, LastOrder)[3].deny
    /\ Judgements(last.before, LastPapers, LastOrder)[4].deny

\* the registry after only 'Foreigners require measles_vaccination'
OnlyMeaslesRequired ==
    receive_bulletin(Inspector_init,
        << << FOREIGNERS, "require", "measles_vaccination" >> >>).rules

\* a foreigner with a passport, an ID card and a certificate that lists
\* measles was inspected, nobody being wanted and only the measles
\* vaccination being required of foreigners
VaccinatedForeignerInspected ==
    /\ last.op = "inspect"
    /\ WellFormed(last.arg)
    /\ Has(LastPapers, PASSPORT) /\ Has(LastPapers, IDCARD)
    /\ Has(LastPapers, VACCINATION_CERT)
    /\ "measles" \in Papers_certificate_of_vaccination(LastPapers)
    /\ Papers_nation(LastPapers) \notin {None, ARSTOTZKA}
    /\ last.before.WantedCriminals = WantedCriminals_init
    /\ SameRequired(last.before, OnlyMeaslesRequired)

\* C14 as stated: after only 'Foreigners require measles_vaccination' such a
\* foreigner is judged allowed and gets the foreigner greeting
C14_VaccinatedGreeted ==
    (VaccinatedForeignerInspected
        /\ last.before.AllowedNations = AllowedNations_init)
            => last.out = FOREIGNER_ENTRY_MESSAGE

\* C14 as amended: the required-documents rule allows such a foreigner; with
\* only that bulletin received the whitelist is empty and inspect denies the
\* entrant as a citizen of a banned nation; the foreigner greeting is
\* returned once the entrant's nation is allowed
C14_VaccinatedPassesDocuments ==
    VaccinatedForeignerInspected =>
        /\ Judgements(last.before, LastPapers, LastOrder)[3] = Allow
        /\ last.out =
               IF Papers_nation(LastPapers) \in last.before.AllowedNations.whitelist
               THEN "Cause no trouble."
               ELSE "Entry denied: citizen of banned nation."

\* C14 witness: with only that bulletin received the vaccinated foreigner
\* was denied for the nation, not for a document
C14_Witness ==
    /\ VaccinatedForeignerInspected
    /\ calls.receive_bulletin = 1
    /\ last.before.AllowedNations = AllowedNations_init
    /\ last.out = "Entry denied: citizen of banned nation."

-----------------------------------------------------------------------------
(* Lines of a bulletin (specification SpecBulletin)                         *)

\* the lines of the bulletin that some rule class matches
MatchedLines(bulletinstr) == SelectSeq(bulletinstr, LAMBDA line : Kind(line) # "")

\* the last call received a bulletin with a line that no rule class matches
UnmatchedReceived ==
    /\ last.op = "receive_bulletin"
    /\ \E n \in DOMAIN last.arg : Kind(last.arg[n]) = ""

\* C15: a line that matches no directive pattern, the empty line included,
\* raises no error and changes nothing: the call does what it does without
\* these lines, and a bulletin of such lines only returns with the wanted
\* name, the required sets and the whitelist as they were
C15_UnmatchedLineIgnored ==
    UnmatchedReceived =>
        /\ last.out = IF receive_bulletin(last.before, MatchedLines(last.arg)).raised
                      THEN ValueError ELSE None
        /\ rules = receive_bulletin(last.before, MatchedLines(last.arg)).rules
        /\ MatchedLines(last.arg) = << >> => last.out = None /\ rules = last.before

\* C15 witness: the empty line was received by a registry that bulletins had
\* changed, and left it as it was
C15_Witness ==
    /\ UnmatchedReceived
    /\ last.arg = << << >> >>
    /\ last.out = None
    /\ rules = last.before
    /\ ~SameRegistry(rules, Inspector_init)

\* the first line of the bulletin that a rule class matches and cannot
\* parse; 0 when there is none
FirstUnparsed(bulletinstr) ==
    Least({n \in DOMAIN bulletinstr : bulletinstr[n] \in UnparsedLines})

\* C16: the ingest fails exactly when a line matches a coarse pattern and
\* cannot be parsed; the registry is then the one the lines before the
\* failing line leave: the failing line and the lines after it change nothing
C16_UnparsedLineFails ==
    last.op = "receive_bulletin" =>
        /\ last.out = ValueError <=> FirstUnparsed(last.arg) # 0
        /\ FirstUnparsed(last.arg) # 0 =>
               /\ ~receive_bulletin(last.before,
                       SubSeq(last.arg, 1, FirstUnparsed(last.arg) - 1)).raised
               /\ rules = receive_bulletin(last.before,
                       SubSeq(last.arg, 1, FirstUnparsed(last.arg) - 1)).rules
        /\ (FirstUnparsed(last.arg) = 1 /\ last.out = ValueError)
               => rules = last.before

\* C16 witness: the second line of a bulletin failed; the wanted name of the
\* first line is held and the requirement of the third line is not
C16_Witness ==
    /\ last.op = "receive_bulletin"
    /\ last.out = ValueError
    /\ last.arg = << Line_wanted("Jane", "Doe"),
                     << "Ban", "citizens", "of", "Antegria" >>,
                     Line_require(<< WORKERS >>, FALSE, << "passport" >>) >>
    /\ last.before.WantedCriminals.name # "Doe, Jane"
    /\ rules.WantedCriminals.name = "Doe, Jane"
    /\ "passport" \notin Lookup(rules.RequiredDocuments.categories, WORKERS)

-----------------------------------------------------------------------------
(* Failures of the inspection (specification Spec)                          *)

\* the inspection `last` records raised instead of returning a message
Failed == last.op = "inspect" /\ last.out \in {ValueError, KeyError}

\* C17: inspect fails exactly when some line of some document does not split
\* at ': ' into a key and a value; it then fails before any rule is
\* evaluated and leaves the registry as it was
C17_FailsOnlyMalformed ==
    last.op = "inspect" =>
        /\ Failed <=> Papers_raises(last.arg)
        /\ Failed => last.out = ValueError /\ rules = last.before

-----------------------------------------------------------------------------
(* The wanted name and the categories (specification SpecBulletin)          *)

\* the lines of the bulletin that are applied: those before the first line
\* that cannot be parsed
AppliedLines(bulletinstr) ==
    IF FirstUnparsed(bulletinstr) = 0 THEN bulletinstr
    ELSE SubSeq(bulletinstr, 1, FirstUnparsed(bulletinstr) - 1)

\* the positions of the wanted directives among the applied lines
WantedAt(bulletinstr) ==
    {n \in DOMAIN AppliedLines(bulletinstr) : bulletinstr[n] \in WantedLines}

\* the greatest element of a nonempty set of numbers
Greatest(S) == CHOOSE n \in S : \A m \in S : m <= n

\* 'Last, First' of the directive 'Wanted by the State: First Last'
LastFirst(line) == line[7] \o ", " \o line[6]

\* C18: the wanted name held after a bulletin is 'Last, First' of the last
\* wanted directive it applied, and the name held before when it applied
\* none; an inspection leaves the name; so the name held is that of the most
\* recent wanted directive only, and inspect detains as wanted exactly the
\* entrant of that name, never the entrant of a name it has replaced
C18_MostRecentWanted ==
    /\ last.op = "receive_bulletin" =>
           rules.WantedCriminals.name =
               IF WantedAt(last.arg) = {}
               THEN last.before.WantedCriminals.name
               ELSE LastFirst(last.arg[Greatest(WantedAt(last.arg))])
    /\ last.op = "inspect" =>
           /\ rules.WantedCriminals.name = last.before.WantedCriminals.name
           /\ last.out = "Detainment: Entrant is a wanted criminal."
                  <=> Papers_name(LastPapers) = last.before.WantedCriminals.name

\* C18 witness: Jane Doe was wanted, the bulletin received wanted John Smith,
\* and the name held is his
C18_Witness ==
    /\ last.op = "receive_bulletin"
    /\ last.arg = << Line_wanted("John", "Smith") >>
    /\ last.before.WantedCriminals.name = "Doe, Jane"
    /\ rules.WantedCriminals.name = "Smith, John"

\* the document identifiers a list of documents names
RequiredOf(documents) ==
    CASE documents = << "passport" >> -> {"passport"}
      [] documents = << "passport", COMMA, "ID", "card" >> -> {"passport", "ID_card"}
      [] documents = << "measles", "vaccination" >> -> {"measles_vaccination"}

\* the documents required of category before and after the last call
RequiredBefore(category) == Lookup(last.before.RequiredDocuments.categories, category)

RequiredAfter(category) == Lookup(rules.RequiredDocuments.categories, category)

\* the last call received the one directive '<category> require <documents>'
RequireReceived(category, documents) ==
    /\ last.op = "receive_bulletin"
    /\ last.arg = << Line_require(<< category >>, FALSE, documents) >>

\* C19: 'Entrants require D' adds D to the set of every entry of COUNTRIES,
\* Arstotzka and None included; 'Foreigners require D' adds D to the set of
\* every entry but Arstotzka and leaves Arstotzka's set as it was; the
\* registry never holds a category 'Entrants' or 'Foreigners'
C19_EntrantsAndForeigners ==
    /\ \A d \in DocumentLists :
           /\ RequireReceived(ENTRANTS, d) =>
                  \A n \in DOMAIN COUNTRIES :
                      RequiredAfter(COUNTRIES[n])
                          = RequiredBefore(COUNTRIES[n]) \cup RequiredOf(d)
           /\ RequireReceived(FOREIGNERS, d) =>
                  /\ \A n \in 2..Len(COUNTRIES) :
                         RequiredAfter(COUNTRIES[n])
                             = RequiredBefore(COUNTRIES[n]) \cup RequiredOf(d)
                  /\ RequiredAfter("Arstotzka") = RequiredBefore("Arstotzka")
    /\ "Entrants" \notin DOMAIN rules.RequiredDocuments.categories
    /\ "Foreigners" \notin DOMAIN rules.RequiredDocuments.categories

\* C19 witness: 'Foreigners require measles vaccination' was received when
\* Arstotzkans were required a passport; they are required no vaccination,
\* and entrants of no nation are
C19_Witness ==
    /\ RequireReceived(FOREIGNERS, << "measles", "vaccination" >>)
    /\ RequiredBefore("Arstotzka") = {"passport"}
    /\ RequiredAfter("Arstotzka") = {"passport"}
    /\ "measles_vaccination" \notin RequiredBefore(None)
    /\ "measles_vaccination" \in RequiredAfter(None)

-----------------------------------------------------------------------------
(* Presence of a vaccination (specification SpecPapers)                     *)

\* C20: the requirement 'measles_vaccination' is present in a submission
\* only if the submission has a certificate of vaccination whose vaccines
\* include measles, whatever else the submission holds
C20_VaccinationNeedsCertificate ==
    (/\ last.op = "document_present"
     /\ last.arg[2] = "measles_vaccination"
     /\ last.out = "True")
        => /\ Has(Papers(last.arg[1]), VACCINATION_CERT)
           /\ "measles" \in Papers_certificate_of_vaccination(Papers(last.arg[1]))

-----------------------------------------------------------------------------
(* The required-documents rule (specification Spec)                         *)

\* the entrant of the last inspection presents a passport with a grant of
\* asylum or with a diplomatic authorization
Exempt ==
    /\ Has(LastPapers, PASSPORT)
    /\ Has(LastPapers, ASYLUM) \/ Has(LastPapers, DIPLOMAT)

\* the entrant of the last inspection has an access permit for WORK
IsWorker ==
    /\ Has(LastPapers, ACCESS_PERMIT)
    /\ PURPOSE \in DOMAIN Paper(LastPapers, ACCESS_PERMIT)
    /\ Paper(LastPapers, ACCESS_PERMIT)[PURPOSE] = "WORK"

\* the documents the registry required of the entrant of the last inspection
EffectiveRequired ==
    Lookup(last.before.RequiredDocuments.categories, Papers_nation(LastPapers))
        \cup IF IsWorker
             THEN Lookup(last.before.RequiredDocuments.categories, "Workers")
             ELSE {}

\* the plain documents among them that the entrant lacks
MissingPlain ==
    {d \in EffectiveRequired : ~EndsWithVaccination(d) /\ ~Has(LastPapers, d)}

\* the measles vaccination is required and the entrant fails it
FailsVaccination ==
    /\ "measles_vaccination" \in EffectiveRequired
    /\ \/ ~Has(LastPapers, VACCINATION_CERT)
       \/ "measles" \notin Papers_certificate_of_vaccination(LastPapers)

\* the judgement of the required-documents rule in the last inspection
RequiredJudgement == Judgements(last.before, LastPapers, LastOrder)[3]

\* an entrant without exemption was inspected who lacks a required plain
\* document and fails a required vaccination
PlainAndVaccinationMissing ==
    /\ last.op = "inspect"
    /\ WellFormed(last.arg)
    /\ ~Exempt
    /\ MissingPlain # {}
    /\ FailsVaccination

\* C21: when the effective required set holds a plain document the entrant
\* lacks and a vaccination the entrant fails, the required-documents rule
\* denies for a missing plain document (the first one in the order of the
\* set), never for the vaccination or the certificate, whatever the order of
\* the set; inspect returns that denial when the two rules before allow
C21_PlainBeforeVaccination ==
    PlainAndVaccinationMissing =>
        /\ RequiredJudgement.deny
        /\ \E d \in MissingPlain :
               /\ RequiredJudgement.reason
                      = "missing required " \o document_name_for_display(d)
               /\ \A e \in MissingPlain :
                      \E i, j \in DOMAIN LastOrder :
                          LastOrder[i] = d /\ LastOrder[j] = e /\ i <= j
        /\ RequiredJudgement.reason
               \notin {"missing required vaccination",
                       "missing required certificate of vaccination"}
        /\ (/\ Judgements(last.before, LastPapers, LastOrder)[1] = Allow
            /\ Judgements(last.before, LastPapers, LastOrder)[2] = Allow)
               => last.out = "Entry denied: " \o RequiredJudgement.reason \o "."

\* C21 witness: the set was iterated with the vaccination before the ID
\* card, and the entrant who lacks both was denied for the ID card
C21_Witness ==
    /\ PlainAndVaccinationMissing
    /\ MissingPlain = {"ID_card"}
    /\ \E i, j \in DOMAIN hashorder :
           hashorder[i] = "measles_vaccination" /\ hashorder[j] = "ID_card" /\ i < j
    /\ last.out = "Entry denied: missing required ID card."

\* an exempt entrant whose documents parse was inspected
ExemptInspected == last.op = "inspect" /\ ~Papers_raises(last.arg) /\ Exempt

\* C22: an entrant with a passport and a grant of asylum, or a passport and
\* a diplomatic authorization, gets Allow from the required-documents rule
\* whatever is required and missing; the allowed-nations rule is evaluated
\* after it: when the rules before allow, inspect greets the entrant of an
\* allowed nation and denies the others as citizens of a banned nation
C22_ExemptFromRequired ==
    ExemptInspected =>
        /\ RequiredJudgement = Allow
        /\ (/\ Judgements(last.before, LastPapers, LastOrder)[1] = Allow
            /\ Judgements(last.before, LastPapers, LastOrder)[2] = Allow)
               => last.out =
                      IF Papers_nation(LastPapers)
                             \in last.before.AllowedNations.whitelist
                      THEN IF Papers_nation(LastPapers) = "Arstotzka"
                           THEN "Glory to Arstotzka."
                           ELSE "Cause no trouble."
                      ELSE "Entry denied: citizen of banned nation."

\* C22 witness: an entrant with a passport and a grant of asylum lacked a
\* required document and was denied for the nation, not for the document
C22_Witness ==
    /\ ExemptInspected
    /\ Has(LastPapers, ASYLUM)
    /\ MissingPlain # {}
    /\ last.out = "Entry denied: citizen of banned nation."

\* vaccination-aware presence: the required document d is not satisfied by
\* the entrant of the last inspection
Unsatisfied(d) ==
    IF d = "measles_vaccination"
    THEN \/ ~Has(LastPapers, VACCINATION_CERT)
         \/ VACCINES \notin DOMAIN Paper(LastPapers, VACCINATION_CERT)
         \/ "measles" \notin Papers_certificate_of_vaccination(LastPapers)
    ELSE ~Has(LastPapers, d)

\* the denials of the required-documents rule
MissingMessages ==
    {"Entry denied: missing required " \o n \o "." :
        n \in {"passport", "ID card", "vaccination", "certificate of vaccination"}}

\* C23: the required-documents rule checks the nation's set united with the
\* set of 'Workers' for a worker (access permit with PURPOSE WORK) and the
\* nation's set alone for every other entrant: when the rules before allow
\* and nobody is exempt, inspect denies for a missing document exactly when
\* a document of that set is not satisfied, and otherwise goes on to the
\* allowed-nations rule
C23_WorkersUnion ==
    (/\ last.op = "inspect"
     /\ ~Papers_raises(last.arg)
     /\ ~Exempt
     /\ Judgements(last.before, LastPapers, LastOrder)[1] = Allow
     /\ Judgements(last.before, LastPapers, LastOrder)[2] = Allow)
        => /\ last.out \in MissingMessages
                  <=> \E d \in EffectiveRequired : Unsatisfied(d)
           /\ last.out \notin MissingMessages =>
                  last.out \in {"Glory to Arstotzka.", "Cause no trouble.",
                                "Entry denied: citizen of banned nation."}

-----------------------------------------------------------------------------
(* The nation of a submission (specification SpecPapers)                    *)

\* the positions of the documents of entrant that have a NATION line
NationAt(entrant) ==
    {n \in DOMAIN entrant :
        \E l \in DOMAIN entrant[n].infostr : entrant[n].infostr[l][1] = "NATION"}

\* the value of the NATION line of a document that has one
NationOf(document) ==
    document.infostr[CHOOSE l \in DOMAIN document.infostr :
                         document.infostr[l][1] = "NATION"][2]

\* C24: the nation of a submission is the NATION of the first document, in
\* the order of the submission, that has one; when none has, it is Arstotzka
\* if an ID card is presented and None otherwise
C24_FirstNation ==
    (last.op = "nation" /\ ~Papers_raises(last.arg)) =>
        last.out =
            IF NationAt(last.arg) # {}
            THEN NationOf(last.arg[Least(NationAt(last.arg))])
            ELSE IF \E n \in DOMAIN last.arg : last.arg[n].document = "ID_card"
            THEN "Arstotzka"
            ELSE None

\* C24 witness: an ID card without NATION came before a passport of
\* Antegria, and the nation is Antegria
C24_Witness ==
    /\ last.op = "nation"
    /\ Len(last.arg) = 2
    /\ last.arg[1].document = "ID_card"
    /\ NationAt(last.arg) = {2}
    /\ last.out = "Antegria"

-----------------------------------------------------------------------------
(* Admission (specification Spec)                                           *)

\* the last inspection returned a greeting
Admitted == last.op = "inspect" /\ last.out \in {"Glory to Arstotzka.", "Cause no trouble."}

\* C25: inspect greets an entrant only if the nation of the entrant is in the
\* whitelist at the call; so an entrant of no nation is never greeted, and
\* nobody is greeted while the whitelist is empty, as it is before the first
\* 'Allow citizens of' directive
C25_AdmittedOnlyWhitelisted ==
    /\ Admitted =>
           /\ Papers_nation(LastPapers) \in last.before.AllowedNations.whitelist
           /\ Papers_nation(LastPapers) # None
           /\ last.before.AllowedNations.whitelist # {}
    /\ None \notin rules.AllowedNations.whitelist

\* C25 witness: Arstotzka was allowed and an Arstotzkan was greeted
C25_Witness ==
    /\ Admitted
    /\ last.out = "Glory to Arstotzka."
    /\ "Arstotzka" \in last.before.AllowedNations.whitelist

-----------------------------------------------------------------------------
(* The most recent directive decides (specification SpecBulletin)           *)

\* the nations an entrant or a directive of the vocabulary may name
AllNations == Range(COUNTRIES) \cup {"Cobrastan"}

\* the positions of the applied lines of the bulletin that are an Allow or a
\* Deny directive naming the nation
NamedAt(bulletinstr, nation) ==
    {k \in DOMAIN AppliedLines(bulletinstr) :
        /\ bulletinstr[k] \in NationLines
        /\ \E t \in 4..Len(bulletinstr[k]) : bulletinstr[k][t] = nation}

\* C26: the whitelist is empty at first; after a bulletin a nation that an
\* applied Allow or Deny directive names is in the whitelist exactly when the
\* last such directive is an Allow, and every other nation is in it exactly
\* when it was before; an inspection leaves the whitelist.  So a nation is
\* in the whitelist if and only if the most recent directive naming it is an
\* Allow, and a nation no directive names is not in it
C26_MostRecentAllow ==
    /\ (calls.receive_bulletin = 0) => rules.AllowedNations.whitelist = {}
    /\ last.op = "inspect" =>
           rules.AllowedNations.whitelist = last.before.AllowedNations.whitelist
    /\ last.op = "receive_bulletin" =>
           \A nation \in AllNations :
               nation \in rules.AllowedNations.whitelist
                   <=> IF NamedAt(last.arg, nation) = {}
                       THEN nation \in last.before.AllowedNations.whitelist
                       ELSE last.arg[Greatest(NamedAt(last.arg, nation))][1] = "Allow"
    /\ rules.AllowedNations.whitelist \subseteq {"Arstotzka", "Antegria"}

\* C26 witness: Arstotzka and Antegria were allowed, 'Deny citizens of
\* Arstotzka' was received, and Antegria alone is in the whitelist
C26_Witness ==
    /\ last.op = "receive_bulletin"
    /\ last.arg = << << "Deny", "citizens", "of", "Arstotzka" >> >>
    /\ last.before.AllowedNations.whitelist = {"Arstotzka", "Antegria"}
    /\ rules.AllowedNations.whitelist = {"Antegria"}

\* for each directive '<phrase> require <documents>' or '<phrase> no longer
\* require <documents>', the pairs of a category the phrase covers and a
\* document the list names
ListedFor ==
    [line \in RequireLines |->
        UNION {Covered(c) \X RequiredOf(d) :
                  << c, d >> \in
                      {p \in CategoryPhrases \X DocumentLists :
                          line \in {Line_require(p[1], n, p[2]) : n \in BOOLEAN}}}]

\* the line is a directive that lists D for the category
Requires(line, category, D) ==
    line \in RequireLines /\ << category, D >> \in ListedFor[line]

\* the positive 'require' directives
PositiveLines ==
    {Line_require(c, FALSE, d) : c \in CategoryPhrases, d \in DocumentLists}

\* the line is a positive 'require' directive
Positive(line) == line \in PositiveLines

\* the positions of the applied lines of the bulletin that list D for the
\* category
RequireAt(bulletinstr, category, D) ==
    {k \in DOMAIN AppliedLines(bulletinstr) : Requires(bulletinstr[k], category, D)}

\* C27: nothing is required at first; after a bulletin a document D that an
\* applied directive lists for a category covering N is required of N
\* exactly when the last such directive is a positive 'require', and every
\* other document is required of N exactly when it was before; the same for
\* 'Workers', which only a 'Workers' directive covers; an inspection leaves
\* every set.  So D is required of N if and only if the most recent directive
\* that lists D and covers N is positive, and a directive aimed at one nation
\* changes neither another nation's set nor the set of 'Workers'
C27_MostRecentRequire ==
    /\ (calls.receive_bulletin = 0) =>
           \A N \in Range(COUNTRIES) \cup {"Workers"} : RequiredAfter(N) = {}
    /\ last.op = "inspect" =>
           \A N \in Range(COUNTRIES) \cup {"Workers"} :
               RequiredAfter(N) = RequiredBefore(N)
    /\ last.op = "receive_bulletin" =>
           \A N \in Range(COUNTRIES) \cup {"Workers"} :
               \A D \in {"passport", "ID_card", "measles_vaccination"} :
                   D \in RequiredAfter(N)
                       <=> IF RequireAt(last.arg, N, D) = {}
                           THEN D \in RequiredBefore(N)
                           ELSE Positive(last.arg[Greatest(RequireAt(last.arg, N, D))])
    /\ \A N \in Range(COUNTRIES) \cup {"Workers"} :
           RequiredAfter(N) \subseteq {"passport", "ID_card", "measles_vaccination"}

\* C27 witness: entrants of Antegria and of Impor and workers were required
\* a passport, 'Antegria no longer require passport' was received, and the
\* passport is still required of Impor and of workers, not of Antegria
C27_Witness ==
    /\ last.op = "receive_bulletin"
    /\ last.arg = << << "Antegria", "no", "longer", "require", "passport" >> >>
    /\ "passport" \in RequiredBefore("Antegria")
    /\ "passport" \notin RequiredAfter("Antegria")
    /\ "passport" \in RequiredAfter("Impor")
    /\ "passport" \in RequiredAfter("Workers")

-----------------------------------------------------------------------------
(* The registry across an inspection (specification Spec)                   *)

\* C28: inspect changes nothing the registry requires or allows: the wanted
\* name, the documents required of every category and the whitelist are
\* after the call what they were before it, whether the call returns a
\* message or fails; all it may store is a category that requires nothing
C28_InspectKeepsRegistry ==
    last.op = "inspect" =>
        /\ SameRegistry(rules, last.before)
        /\ \A c \in DOMAIN rules.RequiredDocuments.categories :
               c \notin DOMAIN last.before.RequiredDocuments.categories
                   => rules.RequiredDocuments.categories[c] = {}

\* C28 witness: a worker of a nation the registry had never seen was
\* inspected while workers were required documents; the registry requires
\* and allows what it did
C28_Witness ==
    /\ last.op = "inspect"
    /\ ~Papers_raises(last.arg)
    /\ IsWorker
    /\ Lookup(last.before.RequiredDocuments.categories, "Workers") # {}
    /\ Papers_nation(LastPapers) \notin DOMAIN last.before.RequiredDocuments.categories
    /\ Papers_nation(LastPapers) \in DOMAIN rules.RequiredDocuments.categories
    /\ SameRegistry(rules, last.before)

-----------------------------------------------------------------------------
(* Nobody wanted (specification Spec)                                       *)

\* C29: while no wanted directive has been received (the name held is the
\* initial one), inspect detains nobody as a wanted criminal, whatever the
\* NAME of the submission is: absent, empty, or any name
C29_NobodyWantedAtFirst ==
    (last.op = "inspect" /\ last.before.WantedCriminals = WantedCriminals_init)
        => last.out # "Detainment: Entrant is a wanted criminal."

-----------------------------------------------------------------------------
(* Dates (specification SpecPapers)                                         *)

\* the digit a character stands for
Digit(ch) == CHOOSE n \in 0..9 : ch = << "0", "1", "2", "3", "4", "5", "6", "7", "8", "9" >>[n + 1]

IsDigit(ch) == ch \in {"0", "1", "2", "3", "4", "5", "6", "7", "8", "9"}

\* the characters are a date YYYY.MM.DD, zero-padded
WellFormedDate(c) ==
    /\ Len(c) = 10
    /\ c[5] = "." /\ c[8] = "."
    /\ \A i \in {1, 2, 3, 4, 6, 7, 9, 10} : IsDigit(c[i])

Year(c) == 1000 * Digit(c[1]) + 100 * Digit(c[2]) + 10 * Digit(c[3]) + Digit(c[4])

Month(c) == 10 * Digit(c[6]) + Digit(c[7])

Day(c) == 10 * Digit(c[9]) + Digit(c[10])

\* the date is 22 November 1982 or a day before it
OnOrBeforeCutoff(c) ==
    \/ Year(c) < 1982
    \/ Year(c) = 1982 /\ Month(c) < 11
    \/ Year(c) = 1982 /\ Month(c) = 11 /\ Day(c) <= 22

\* the expiration of a submission of one document with an EXP was checked
ExpirationChecked ==
    /\ last.op = "check_expiration_dates"
    /\ Len(last.arg) = 1
    /\ ~Papers_raises(last.arg)
    /\ EXPIRATION \in DOMAIN Papers(last.arg)[1].info

\* the EXP of that document
CheckedDate == Papers(last.arg)[1].info[EXPIRATION]

\* C30: a document whose EXP is a zero-padded date YYYY.MM.DD is reported as
\* expired exactly when the date is 1982.11.22 or a calendar day before it,
\* and passes when it is later: the comparison of the strings agrees with
\* the comparison of the dates
C30_LexicalIsCalendar ==
    (ExpirationChecked /\ WellFormedDate(Chars(CheckedDate))) =>
        /\ OnOrBeforeCutoff(Chars(CheckedDate))
               => last.out = document_name_for_display(last.arg[1].document)
        /\ ~OnOrBeforeCutoff(Chars(CheckedDate)) => last.out = None
        /\ CheckedDate = "1982.11.22" => last.out = "passport"

\* C30 witness: a passport that expires on the cutoff date was reported
C30_Witness ==
    /\ ExpirationChecked
    /\ CheckedDate = "1982.11.22"
    /\ last.out = "passport"

====
